---- MODULE Spec2Model ----
(***************************************************************************)
(* Verification model of the fasthttp-style HTTP server of this            *)
(* repository.                                                             *)
(*                                                                         *)
(*   SpecConn         : one connection inside serveConn (request loop,     *)
(*                      TimeoutHandler, context pool, hijack).             *)
(*   SpecServe        : the same loop with a Handler that is not wrapped   *)
(*                      in TimeoutHandler.                                 *)
(*   SpecAdmit        : concurrent Server.ServeConn calls (per-IP limit,   *)
(*                      concurrency limit, closing).                       *)
(*   SpecOldServeConn : concurrent Server.ServeConn calls of server.go.    *)
(*   SpecWorkers      : Server.ServerConcurrency of server.go with its     *)
(*                      connWorkersMonitor and connWorker goroutines.      *)
(*   SpecWorkersPanic : the same with a request handler that can panic.    *)
(*   SpecServeErr     : SpecServe with malformed requests and failing      *)
(*                      writes.                                            *)
(*   SpecTimed        : the read and write deadlines of serveConn.         *)
(*   SpecGetOnly      : SpecServe with GET and other requests and the      *)
(*                      GetOnly option.                                    *)
(*   SpecClient       : one HostClient with concurrent Do calls and its    *)
(*                      idle connection cleaner.                           *)
(*   SpecClientLive   : SpecClient with a cleaner that keeps running.      *)
(*   SpecHelper       : Get and Post calls of one client, one at a time.   *)
(*   SpecDial         : the caching, round-robin TCP dialer.               *)
(*   SpecHeader       : a request header and a response header after Read, *)
(*                      with the lazy parsing of the retained block.       *)
(*   SpecRead         : RequestHeader.Read and ResponseHeader.Read on a     *)
(*                      stream that hands out its bytes in fragments;      *)
(*                      SpecReadLive adds that the Read keeps running.     *)
(*   SpecMessage      : Request.Read and Response.Read on a stream of        *)
(*                      pipelined messages.                                *)
(*   SpecRoundTrip    : Response.Write into a buffer and Response.Read      *)
(*                      from it.                                           *)
(*   SpecMaps         : Client.Do with its maps of HostClients and their   *)
(*                      cleaner goroutines.                                *)
(*   SpecWrite        : Response.Write of a response with a BodyStream.    *)
(*   SpecArgs         : Args.Parse and Args.String on query strings.       *)
(*   SpecCopy         : Request.CopyTo and later changes of its source.    *)
(*   SpecStatus       : concurrent statusLine calls on the cached map.     *)
(*   SpecOldRead      : the serveConn loops of server.go with              *)
(*                      Request.ReadTimeout and the shared reader pool.    *)
(*   SpecNewDial      : the dial function of tcpDialer.NewDial: address    *)
(*                      resolution, dial goroutine and dial timer.         *)
(***************************************************************************)
EXTENDS Integers, Sequences, FiniteSets, TLC

\* ------------------------------------------------------------------------
\* Bounds
\* ------------------------------------------------------------------------
\* Number of complete requests the peer sends on the connection.
MaxRequests == 2

\* RequestCtx objects that can ever be allocated: every loop iteration can
\* abandon one ctx on a timeout and one more on a hijack.
NumCtx == 2 * MaxRequests + 2

\* Number of connections that arrive at the server.
NumConns == 2

\* Ticks of the clock of the timed loop.
MaxTime == 5

\* Number of addresses a host resolves to, at most.
MaxAddrs == 3

\* Number of header lines of a message, at most.
MaxLines == 2

\* Number of bytes of a stream a header is read from, at most, and the
\* size of the bufio.Reader's buffer.
MaxLen == 6
ReadBufSize == 5

\* Number of messages on a stream and of bytes of a message body, at most.
MaxMsgs == 2
MaxBody == 2

\* Number of HostClient objects a Client creates, at most.
MaxHostClients == 2

\* Goroutines calling HostClient.Do, and connections they may dial in all.
NumCalls == 2
MaxDials == 3

\* Cleaner goroutines of a HostClient that may run at the same time.
MaxCleaners == 2

\* ------------------------------------------------------------------------
\* Program constants
\* ------------------------------------------------------------------------
StatusOK == 200
StatusRequestTimeout == 408
StatusNoContent == 204

\* const DefaultConcurrency = 256 * 1024
DefaultConcurrency == 262144

\* const DefaultMaxConnsPerHost = 10
DefaultMaxConnsPerHost == 10

VARIABLES
    cfg,            \* Server fields and the TimeoutHandler arguments
    sent,           \* everything the peer sends on the connection
    sock,           \* bytes the peer sent that are still in the socket
    br,             \* the loop's *bufio.Reader (on = FALSE: nil)
    bw,             \* the loop's *bufio.Writer (on = FALSE: nil)
    wire,           \* responses flushed to the connection, in order
    ctx,            \* the loop's current *RequestCtx (0: nil)
    ctxs,           \* the RequestCtx objects
    ctxPool,        \* Server.ctxPool
    allocated,      \* number of RequestCtx objects allocated so far
    tasks,          \* goroutines started by TimeoutHandler, per iteration
    pc,             \* position of the serveConn loop
    err,            \* serveConn's err
    connRequestNum, \* serveConn's connRequestNum
    outcome,        \* per iteration: how the handler call ended
    handled,        \* request ids passed to the handler, in call order
    closeCount,     \* number of Close calls the connection received
    hj,             \* the hijackConnHandler goroutine
    conns,          \* the connections handed to ServeConn / Serve
    perIPConnCounter, \* Server.perIPConnCounter: ip -> count
    concurrency,    \* Server.concurrency (uint32)
    ch,             \* ServerConcurrency's channel of accepted connections
    workersCount,   \* connWorkersMonitor's workersCount (uint32)
    idleWorkers,    \* connWorker goroutines waiting in their select
    monitor,        \* the connWorkersMonitor goroutine
    stopCh,         \* TRUE once ServerConcurrency closed stopCh
    tnow,           \* time.Now(), in ticks
    connTime,       \* serveConn's connTime
    currentTime,    \* serveConn's currentTime
    readDeadline,   \* the connection's read deadline (NoDeadline: none)
    writeDeadline,  \* the connection's write deadline (NoDeadline: none)
    tpc,            \* position of the timed serveConn loop
    terr,           \* its err
    tbr,            \* TRUE while its br holds a pipelined request
    tclose,         \* the Connection: close flag of the current response
    tlast,          \* what happened to the last request and response
    connsCount,     \* HostClient.connsCount
    idleConns,      \* HostClient.conns: the stack of idle clientConns
    clientConnPool, \* clientConnPool: the clientConn objects it holds
    ccs,            \* the clientConn objects: c is the net.Conn, 0 for nil
    netConns,       \* the net.Conns dialed: "none", "open", "closed"
    does,           \* the goroutines that call HostClient.Do
    cleaners,       \* number of running cleaner goroutines
    dialsCount,     \* calls of the Dial function of the client under test
    hostConns,      \* the idle connections of that client's HostClient
    hostPool,       \* TRUE when clientConnPool holds a clientConn
    got,            \* what the last Get or Post call did and returned
    tcpAddrsMap,    \* tcpDialer.tcpAddrsMap: the entry of the one host dialed
    dnow,           \* the dialer's clock, in minutes
    dialed,         \* the addresses dialed from the entry, oldest first
    hostMaps,       \* Client.m and Client.ms: host -> HostClient, 0 for none
    hostClients,    \* the HostClient objects created by Client.Do
    mapCleaner,     \* per map: TRUE while its cleaner goroutine runs
    callers,        \* the goroutines that call Client.Do
    cnow,           \* the client's clock, in half minutes
    rawHeaders,     \* the header block a Read has retained, line by line
    reqHeader,      \* a RequestHeader holding that block
    respHeader,     \* a ResponseHeader holding that block
    rd,             \* a header Read: the stream, the bufio.Reader, the header
    ms,             \* messages on a stream: what was sent, what is unread,
                    \* what the Reads so far returned
    wr,             \* a Response.Write call: the response, the writer, the
                    \* BodyStream and what the call did to them
    args,           \* an Args object: the string parsed, a.args, and the
                    \* string it was serialized to
    copy,           \* a Request.CopyTo call: src, dst and the byte buffers they use
    statusLines,    \* statusLines: the status codes the cached map has a line for
    liners,         \* the tasks calling statusLine: position, code, map loaded
    readersPool,    \* Server.readersPool of the older server: the readers in it
    rtConns,        \* its serveConn loops, each with the task ReadTimeout started
    dialEntry,      \* the tcpAddrEntry of the host dialed through NewDial's function
    dialCalls       \* the calls of that function, each with its dial goroutine

\* The state of one serveConn loop.
loopVars == <<sent, sock, br, bw, wire, ctx, ctxs, ctxPool, allocated, tasks,
              pc, err, connRequestNum, outcome, handled, closeCount, hj>>

\* The state of connection admission.
admitVars == <<conns, perIPConnCounter, concurrency>>

\* The state of the worker goroutines behind ServerConcurrency.
poolVars == <<ch, workersCount, idleWorkers, monitor, stopCh>>

\* The state of the timed serveConn loop.
clockVars == <<tnow, connTime, currentTime, readDeadline, writeDeadline, tpc,
               terr, tbr, tclose, tlast>>

\* The state outside the request loop, the admission and the worker pool.
\* The state of a HostClient and the goroutines using it.
clientVars == <<connsCount, idleConns, clientConnPool, ccs, netConns, does,
                cleaners>>

\* The state of a client used through Get and Post.
helperVars == <<dialsCount, hostConns, hostPool, got>>

\* The state of the parts outside the server and the HostClient.
\* The state of the TCP dialer.
dialVars == <<tcpAddrsMap, dnow, dialed>>

\* The state of a Client with its maps of HostClients.
mapVars == <<hostMaps, hostClients, mapCleaner, callers, cnow>>

\* The state of a request header and a response header after Read.
hdrVars == <<rawHeaders, reqHeader, respHeader>>

\* The state of the parts modelled on their own: a Response.Write call, an
\* Args object, a Request.CopyTo call, the status-line cache, the reader
\* pool of the older server, the dial function.
lateVars == <<wr, args, copy, statusLines, liners, readersPool, rtConns,
    dialEntry, dialCalls>>

restVars == <<helperVars, dialVars, mapVars, hdrVars, rd, ms, lateVars>>

\* The state of the server and of the HostClient.
serverVars == <<cfg, loopVars, admitVars, poolVars, clockVars, clientVars>>

\* What the actions on one of these parts leave alone.
outsideHelper == <<serverVars, dialVars, mapVars, hdrVars, rd, ms,
    lateVars>>
outsideDial == <<serverVars, helperVars, mapVars, hdrVars, rd, ms,
    lateVars>>
outsideMaps == <<serverVars, helperVars, dialVars, hdrVars, rd, ms,
    lateVars>>
outsideHeader == <<serverVars, helperVars, dialVars, mapVars, rd, ms,
    lateVars>>
outsideRead == <<serverVars, helperVars, dialVars, mapVars, hdrVars, ms,
    lateVars>>
outsideMessages == <<serverVars, helperVars, dialVars, mapVars, hdrVars, rd,
    lateVars>>
outsideLate == <<serverVars, helperVars, dialVars, mapVars, hdrVars, rd, ms>>
readVars == <<readersPool, rtConns>>
newDialVars == <<dialEntry, dialCalls>>
outsideWrite ==
    <<outsideLate, args, copy, statusLines, liners, readVars, newDialVars>>
outsideArgs ==
    <<outsideLate, wr, copy, statusLines, liners, readVars, newDialVars>>
outsideCopy ==
    <<outsideLate, wr, args, statusLines, liners, readVars, newDialVars>>
outsideStatus == <<outsideLate, wr, args, copy, readVars, newDialVars>>
outsideOldRead ==
    <<outsideLate, wr, args, copy, statusLines, liners, newDialVars>>
outsideNewDial ==
    <<outsideLate, wr, args, copy, statusLines, liners, readVars>>

otherVars == <<clockVars, clientVars, restVars>>

vars == <<cfg, loopVars, admitVars, poolVars, otherVars>>

\* ------------------------------------------------------------------------
\* Requests on the wire.  A request is read in two pieces (units), so that
\* a socket read can end in the middle of a request.
\* ------------------------------------------------------------------------
\* close: the request carries Connection: close.  want: what the handler
\* does for this request besides writing its body (the handler is a
\* function of the request).  get: the request method is GET.
HandlerOpts == {"none", "close", "hijack"}

NoReq == [id |-> 0, close |-> FALSE, want |-> "none", get |-> TRUE]

Unit(i, f, h) == [req |-> [id |-> i, close |-> f.close, want |-> f.want,
                           get |-> f.get],
                  half |-> h]

\* k complete requests with the attributes f[1..k], followed, when trunc,
\* by the first piece of one more request; then the peer closes.
Stream(f, trunc) ==
    [j \in 1..(2 * Len(f) + (IF trunc THEN 1 ELSE 0)) |->
        IF j <= 2 * Len(f)
        THEN Unit((j + 1) \div 2, f[(j + 1) \div 2], ((j - 1) % 2) + 1)
        ELSE Unit(Len(f) + 1, NoReq, 1)]

ReqAttrs == [close : BOOLEAN, want : HandlerOpts, get : {TRUE}]

Streams == {Stream(f, t) :
              f \in UNION {[1..k -> ReqAttrs] : k \in 0..MaxRequests},
              t \in BOOLEAN}

SubSeqFrom(s, n) == SubSeq(s, n, Len(s))

\* ------------------------------------------------------------------------
\* Responses
\* ------------------------------------------------------------------------
ResetResponse == [status |-> StatusOK, body |-> <<>>, close |-> FALSE]

\* The body a handler produces for request id i, written in two appends.
Part(i) == <<i>>
HBody(i) == <<i, i>>

\* RequestCtx.Error(msg, statusCode)
MsgBody(msg) == IF msg = "" THEN <<>> ELSE <<msg>>
ErrorResponse(msg, statusCode) ==
    [status |-> statusCode, body |-> MsgBody(msg), close |-> FALSE]

NoReader == [on |-> FALSE, buf |-> <<>>, fbr |-> 0]
NoWriter == [on |-> FALSE, buf |-> <<>>]

FreshCtx == [Request |-> NoReq, Response |-> ResetResponse,
             timeoutErrMsg |-> "", timeoutCh |-> 0,
             hijackHandler |-> FALSE]

NoTask == [st |-> "none", ctx |-> 0, req |-> NoReq, timedOut |-> FALSE]

Msgs == {"", "timeout"}

Iterations == 1..(MaxRequests + 1)

\* ------------------------------------------------------------------------
\* Conditions of serveConn / ServeConn
\* ------------------------------------------------------------------------
\* serveConn: if len(errMsg) > 0
TimeoutSet(errMsg) == errMsg # ""

\* serveConn: on a timeout, if br != nil { ctx.SetConnectionClose() }
TimeoutForcesClose(brOn) == brOn

\* (mutant: the limit takes effect one request late)
LimitReached_Late(n, max) == max > 0 /\ n > max

\* serveConn: s.MaxRequestsPerConn > 0 && connRequestNum >= MaxRequestsPerConn
LimitReached(n, max) == max > 0 /\ n >= max

\* (mutant: the response is flushed only when the connection is closing)
NeedFlush_OnlyOnClose(brOn, connectionClose) == connectionClose

\* serveConn: if br == nil || connectionClose { bw.Flush() ... }
NeedFlush(brOn, connectionClose) == (~brOn) \/ connectionClose

\* (mutant: ServeConn closes c whatever serveConn returned)
ServeConnCloses_OnlyNil(e) == e = "nil"

ServeConnCloses_Always(e) == TRUE

\* ServeConn: if err != errHijacked { c.Close() }
ServeConnCloses(e) == e # "errHijacked"

\* (mutant: only the response's close flag ends the connection)
ConnectionClose_ResponseOnly(respClose, reqClose) == respClose

\* serveConn: connectionClose = ctx.Response.Header.ConnectionClose() ||
\* ctx.Request.Header.ConnectionClose()
ConnectionClose(respClose, reqClose) == respClose \/ reqClose

\* (mutant: the hijack handler is always given the bare connection)
HijackReader_ConnOnly(brOn, buf) == <<>>

\* serveConn: hjr = c; if br != nil { hjr = br }: the bytes in front of the
\* connection in the reader handed to hijackConnHandler.
HijackReader(brOn, buf) == IF brOn THEN buf ELSE <<>>

\* serveConn: !(s.ReduceMemoryUsage || ctx.lastReadDuration > time.Second) || br != nil
\* where lazy stands for the parenthesis: lastReadDuration is the time the
\* peer took over the previous request of whatever connection used the ctx.
EagerRead(lazy, brOn) == (~lazy) \/ brOn

\* Server.acquireCtx: ctxPool.Get() yields a pooled ctx or nothing, and
\* then a new RequestCtx is allocated.
AcquireChoices(pool, alloc) ==
    pool \cup (IF alloc < NumCtx THEN {alloc + 1} ELSE {})

AllocAfter(c, alloc) == IF c > alloc THEN c ELSE alloc

\* How many units end up in the reader's buffer when one request is read
\* from a reader holding buf in front of the socket contents avail:
\* nothing is read from the socket while the buffer holds a whole request,
\* otherwise socket reads return any amount that is available.
FillChoices(bufLen, availLen) ==
    IF bufLen >= 2 THEN {bufLen}
    ELSE IF availLen >= 2 THEN 2..availLen
    ELSE {availLen}

\* ------------------------------------------------------------------------
\* Connections, the per-IP table, the worker goroutines
\* ------------------------------------------------------------------------
\* Connections that arrive at the server.
Conns == 1..NumConns

\* getUint32IP(c): an IPv4 address, or 0 for any other kind of address.
Addrs == {0, 1, 2}

\* The addresses of the connections; connections are numbered in the order
\* of their addresses (any other numbering is a renaming of this one).
ArrivalsOf(n) ==
    {f \in [1..n -> Addrs] : \A c \in 1..(n - 1) : f[c] <= f[c + 1]}

Arrivals == ArrivalsOf(NumConns)

\* Connections that arrive at the server of server.go: one more, so that
\* ServerConcurrency's channel can be full when a connection is accepted.
OldConns == 1..(NumConns + 1)

\* Values of the limits Server.MaxConnsPerIP, Server.Concurrency and of
\* ServerConcurrency's concurrency argument (0: the field is left unset).
Limits == 0..(NumConns - 1)

\* ip: getUint32IP(c).  pc: position of the call serving c.  n: the n of
\* wrapPerIPConn.  cn: the n of ServeConn.  pic: c stands for a perIPConn.
\* closes: Close calls the net.Conn received.  regs, unregs: Register and
\* Unregister calls made for c.  handler: the handler ran for c.
NewConn(ip, at) ==
    [ip |-> ip, pc |-> at, n |-> 0, cn |-> 0, pic |-> FALSE, closes |-> 0,
     regs |-> 0, unregs |-> 0, err |-> "nil", handler |-> FALSE]

EmptyTable == [ip \in {} |-> 0]

Count(tab, ip) == IF ip \in DOMAIN tab THEN tab[ip] ELSE 0

\* perIPConnCounter.Register(ip): increments the count of ip; the new count
\* is what it returns.
Register(tab, ip) ==
    [i \in DOMAIN tab \cup {ip} |-> IF i = ip THEN Count(tab, ip) + 1
                                   ELSE tab[i]]

\* perIPConnCounter.Unregister(ip): decrements the count of ip and removes
\* the entry at zero.
Unregister(tab, ip) ==
    IF tab[ip] = 1 THEN [i \in DOMAIN tab \ {ip} |-> tab[i]]
    ELSE [tab EXCEPT ![ip] = @ - 1]

\* perIPConn.Close: the first Close of the wrapper unregisters its ip.
CloseUnregisters(r) == r.pic /\ r.unregs = 0

\* c.Close() on connection record r, and what it does to the table.
Closed(r) ==
    [r EXCEPT !.closes = @ + 1,
              !.unregs = IF CloseUnregisters(r) THEN 1 ELSE @]

TableAfterClose(tab, r) ==
    IF CloseUnregisters(r) THEN Unregister(tab, r.ip) ELSE tab

\* ServeConn, acceptConn: if s.MaxConnsPerIP > 0
WrapGuard(max) == max > 0

\* (mutant: one connection more than MaxConnsPerIP is let through)
OverLimit_OffByOne(n, max) == n > max + 1

\* (mutant: wrapPerIPConn lets every connection through)
OverLimit_Never(n, max) == FALSE

\* wrapPerIPConn: if n > s.MaxConnsPerIP
OverLimit(n, max) == n > max

\* Server.getConcurrency
getConcurrency(n) == IF n <= 0 THEN DefaultConcurrency ELSE n

\* (mutant: one ServeConn call more than Concurrency is let through)
OverConcurrency_OffByOne(n, limit) == n > limit + 1

\* ServeConn: if n > uint32(s.getConcurrency())
OverConcurrency(n, limit) == n > limit

\* atomic.AddUint32(&x, 1) and atomic.AddUint32(&x, ^uint32(0)) on a uint32
\* counter.  Every decrement undoes an earlier increment of the same
\* goroutine and at most NumConns increments are outstanding, so the
\* counter stays far from both ends of its range and the additions
\* modulo 2^32 act as plus one and minus one.
Inc32(x) == x + 1
Dec32(x) == x - 1

\* connWorkersMonitor: if n < maxWorkers && pendingConns > 0
SpawnGuard(n, maxWorkers, pendingConns) == n < maxWorkers /\ pendingConns > 0

\* ServerConcurrency: ch := make(chan net.Conn, 2*concurrency)
ChanCap(n) == 2 * n

IdleMonitor == [pc |-> "none", n |-> 0, pendingConns |-> 0, i |-> 0]

\* No connection is being admitted.
NoAdmission ==
    /\ conns = [c \in Conns |-> NewConn(0, "none")]
    /\ perIPConnCounter = EmptyTable
    /\ concurrency = 0

\* ServerConcurrency is not running.
NoPool ==
    /\ ch = <<>>
    /\ workersCount = 0
    /\ idleWorkers = 0
    /\ monitor = IdleMonitor
    /\ stopCh = FALSE

\* No connection is inside serveConn's request loop.
NoLoop ==
    /\ sent = <<>>
    /\ sock = <<>>
    /\ br = NoReader
    /\ bw = NoWriter
    /\ wire = <<>>
    /\ ctx = 0
    /\ ctxs = [i \in 1..NumCtx |-> FreshCtx]
    /\ ctxPool = {}
    /\ allocated = 0
    /\ tasks = [i \in 1..MaxRequests |-> NoTask]
    /\ pc = "none"
    /\ err = "nil"
    /\ connRequestNum = 0
    /\ outcome = [i \in Iterations |-> "none"]
    /\ handled = <<>>
    /\ closeCount = 0
    /\ hj = [st |-> "none", r |-> <<>>, read |-> <<>>, how |-> "none"]

\* The zero time.Time: no deadline.
NoDeadline == -1

NoLast == [arrived |-> -1, read |-> FALSE, expired |-> FALSE, setAt |-> -1,
           written |-> FALSE]

\* The timed serveConn loop is not running.
NoClock ==
    /\ tnow = 0
    /\ connTime = 0
    /\ currentTime = 0
    /\ readDeadline = NoDeadline
    /\ writeDeadline = NoDeadline
    /\ tpc = "none"
    /\ terr = "nil"
    /\ tbr = FALSE
    /\ tclose = FALSE
    /\ tlast = NoLast

\* Goroutines that call HostClient.Do, clientConn objects, net.Conns.
Calls == 1..NumCalls
ClientConns == 1..MaxDials
NetConns == 1..MaxDials

NoCall == [pc |-> "idle", cc |-> 0, how |-> "none", err |-> "nil",
           panicked |-> FALSE]

\* A HostClient nobody has used yet.
NewHostClient ==
    /\ connsCount = 0
    /\ idleConns = <<>>
    /\ clientConnPool = {}
    /\ ccs = [i \in ClientConns |-> [made |-> FALSE, c |-> 0,
                                     last |-> "none"]]
    /\ netConns = [i \in NetConns |-> "none"]
    /\ does = [d \in Calls |-> NoCall]
    /\ cleaners = 0

NoClient == NewHostClient

\* What a Get or Post call did: the pieces are filled in by doRequest.
NoGot == [method |-> "none", pooled |-> FALSE, dials |-> 0, failed |-> "none",
          err |-> "nil", status |-> 0]

\* A client nobody has called yet.
NoHelper ==
    /\ dialsCount = 0
    /\ hostConns = <<>>
    /\ hostPool = FALSE
    /\ got = NoGot

\* tcpAddrsMap[addr] == nil: addrs is the number of resolved addresses.
NoEntry == [addrs |-> 0, addrsIdx |-> 0, resolveTime |-> 0, pending |-> FALSE]

\* A dialer that has not dialed yet.
NoDial ==
    /\ tcpAddrsMap = NoEntry
    /\ dnow = 0
    /\ dialed = <<>>

\* time.Minute, in ticks of the client's clock.
Minute == 2

Schemes == {"http", "https"}
Hosts == {"a", "b"}
HostClientIds == 1..MaxHostClients

\* A Client nobody has used: both maps empty, no HostClient made.  The
\* clock starts late enough for the zero lastUseTime of a new HostClient
\* to lie more than a minute back.
NoMaps ==
    /\ hostMaps = [s \in Schemes |-> [h \in Hosts |-> 0]]
    /\ hostClients = [i \in HostClientIds |->
                         [made |-> FALSE, lastUseTime |-> 0, born |-> 0]]
    /\ mapCleaner = [s \in Schemes |-> FALSE]
    /\ callers = [d \in Calls |-> [pc |-> "idle", hc |-> 0]]
    /\ cnow = 2 * Minute

\* Headers that hold no header block.
NoHeaders ==
    /\ rawHeaders = <<>>
    /\ reqHeader = [rawHeadersParsed |-> FALSE, connectionClose |-> FALSE,
                    asked |-> "none"]
    /\ respHeader = [rawHeadersParsed |-> FALSE, connectionClose |-> FALSE]

\* What a header holds after Clear.
NoHeader == [err |-> "nil", len |-> 0, first |-> <<>>, raw |-> <<>>]

\* A header Read not begun, on a stream with the bytes whole: under are
\* the bytes the stream has not handed out yet, buf the bytes buffered in
\* the bufio.Reader, n the size of the next Peek.
NewRead(whole) ==
    [whole |-> whole, under |-> whole, buf |-> <<>>, n |-> 1, pc |-> "read",
     h |-> NoHeader]

NoRead == rd = NewRead(<<>>)

\* A stream on which nothing was sent: sent are the messages put on it,
\* whole all their bytes, stream the bytes not read yet, results what the
\* Reads returned, in order.
NewStream(kind) ==
    [kind |-> kind, sent |-> <<>>, whole |-> <<>>, stream |-> <<>>,
     results |-> <<>>]

NoMessages == ms = NewStream("none")

\* A Response.Write call not made: no response, no writer, no stream.
NoWrite ==
    [pc |-> "none", ContentLength |-> 0, BodyStream |-> "nil", size |-> 0,
     readErr |-> FALSE, wErr |-> "none", closed |-> 0, n |-> 0, err |-> "nil"]

\* An Args object never used.
NoArgs == [pc |-> "none", s |-> <<>>, args |-> <<>>, out |-> <<>>]

\* No Request made.
NoCopy == [pc |-> "none"]

\* The status-line cache after init(), and no task calling statusLine.
NoStatus ==
    /\ statusLines = {}
    /\ liners = [t \in Calls |-> [pc |-> "idle", statusCode |-> 0, m |-> {}]]

\* A serveConn loop of the older server before its first read: br is its
\* reader (0: nil), n the requests read, task the goroutine started by
\* Request.ReadTimeout, reading from reader taskBr.
NoOldLoop ==
    [pc |-> "read", br |-> 0, n |-> 0, err |-> "nil", task |-> "none",
     taskBr |-> 0, res |-> "nil"]

\* An empty reader pool and connections not served yet.
NoOldRead ==
    /\ readersPool = {}
    /\ rtConns = [c \in Conns |-> NoOldLoop]

\* A call of the dial function not made: task is its dial goroutine, conn
\* what net.DialTCP made, ret what the call returned.
NoDialCall ==
    [pc |-> "idle", task |-> "none", conn |-> "none", ret |-> "none",
     addr |-> 0]

\* A dialer whose tcpAddrsMap is empty, and no call made.
NoNewDial ==
    /\ dialEntry = [e |-> "nil", addrs |-> <<>>, addrsIdx |-> 0]
    /\ dialCalls = [d \in Calls |-> NoDialCall]

\* The parts modelled on their own, all unused.
NoLate ==
    /\ wr = NoWrite
    /\ args = NoArgs
    /\ copy = NoCopy
    /\ NoStatus
    /\ NoOldRead
    /\ NoNewDial

NoRest ==
    /\ NoHelper /\ NoDial /\ NoMaps /\ NoHeaders /\ NoRead /\ NoMessages
    /\ NoLate

NoOther == NoClock /\ NoClient /\ NoRest

\* ------------------------------------------------------------------------
\* SpecConn: initial state
\* ------------------------------------------------------------------------
\* A RequestCtx an earlier connection left in the pool: its last request
\* carried Connection: close.
StaleCtx == [FreshCtx EXCEPT !.Request = [NoReq EXCEPT !.close = TRUE]]

Configs ==
    {c \in [useTimeout : BOOLEAN, msg : Msgs,
           MaxRequestsPerConn : 0..(MaxRequests - 1), GetOnly : {FALSE}] :
        (~c.useTimeout) => c.msg = "timeout"}

InitConn ==
    /\ cfg \in Configs
    /\ sent \in Streams
    /\ sock = sent
    /\ br = NoReader
    /\ bw = NoWriter
    /\ wire = <<>>
    /\ ctx = 0
    /\ \E stale \in BOOLEAN :
          /\ allocated = (IF stale THEN 1 ELSE 0)
          /\ ctxPool = (IF stale THEN {1} ELSE {})
          /\ ctxs = [i \in 1..NumCtx |->
                        IF stale /\ i = 1 THEN StaleCtx ELSE FreshCtx]
    /\ tasks = [i \in 1..MaxRequests |-> NoTask]
    /\ pc = "start"
    /\ err = "nil"
    /\ connRequestNum = 0
    /\ outcome = [i \in Iterations |-> "none"]
    /\ handled = <<>>
    /\ closeCount = 0
    /\ hj = [st |-> "none", r |-> <<>>, read |-> <<>>, how |-> "none"]
    /\ NoAdmission
    /\ NoOther
    /\ NoPool

\* ------------------------------------------------------------------------
\* SpecConn: the request loop
\* ------------------------------------------------------------------------
\* serveConn: ctx := s.acquireCtx(c)
Start ==
    /\ pc = "start"
    /\ \E c \in AcquireChoices(ctxPool, allocated) :
          /\ ctx' = c
          /\ ctxPool' = ctxPool \ {c}
          /\ allocated' = AllocAfter(c, allocated)
    /\ pc' = "read"
    /\ UNCHANGED <<admitVars, poolVars, otherVars>>
    /\ UNCHANGED <<cfg, sent, sock, br, bw, wire, ctxs, tasks, err,
                   connRequestNum,
                   outcome, handled, closeCount, hj>>

\* Request.readLimitBody(r, maxBodySize, getOnly): with getOnly a request
\* whose method is not GET is refused once its header is read.
RejectedByGetOnly(getOnly, req) == getOnly /\ ~req.get

\* The result of reading one request through a reader that holds buf, with
\* n units in the buffer afterwards before the request is consumed.
\* Request.Read / RequestHeader.tryRead: no byte at all is io.EOF, a request
\* cut short by the end of the stream is an error, and so is a malformed
\* request (a unit with half = 0), whatever follows it: the bytes read into
\* the buffer are dropped with the reader, the rest stays in the socket.
ReadResult(buf, n, getOnly) ==
    LET avail == buf \o sock IN
    IF Len(avail) = 0 THEN
        [err |-> "nil", ok |-> FALSE, req |-> NoReq, buf |-> <<>>,
         sock |-> <<>>]
    ELSE IF avail[1].half = 0 THEN
        [err |-> "errParse", ok |-> FALSE, req |-> NoReq, buf |-> <<>>,
         sock |-> SubSeqFrom(avail, n + 1)]
    ELSE IF Len(avail) < 2 THEN
        [err |-> "errRead", ok |-> FALSE, req |-> NoReq, buf |-> <<>>,
         sock |-> <<>>]
    ELSE IF RejectedByGetOnly(getOnly, avail[1].req) THEN
        [err |-> "errGetOnly", ok |-> FALSE, req |-> NoReq, buf |-> <<>>,
         sock |-> SubSeqFrom(avail, n + 1)]
    ELSE
        [err |-> "nil", ok |-> TRUE, req |-> avail[1].req,
         buf |-> SubSeq(avail, 3, n), sock |-> SubSeqFrom(avail, n + 1)]

\* serveConn, eager branch: br = acquireReader(ctx) when nil, then
\* ctx.Request.readLimitBody(br, ...); the reader is released when it holds
\* no more bytes or the read failed.
ReadEager ==
    /\ pc = "read"
    /\ \E lazy \in BOOLEAN : EagerRead(lazy, br.on)
    /\ \E n \in FillChoices(Len(br.buf), Len(br.buf) + Len(sock)) :
          LET res == ReadResult(br.buf, n, cfg.GetOnly) IN
          /\ connRequestNum' = connRequestNum + 1
          /\ sock' = res.sock
          /\ br' = IF res.ok /\ Len(res.buf) > 0
                   THEN [on |-> TRUE, buf |-> res.buf, fbr |-> br.fbr]
                   ELSE NoReader
          /\ ctxs' = [ctxs EXCEPT ![ctx].Request = res.req]
          /\ err' = res.err
          /\ pc' = IF res.ok THEN "handler" ELSE "exit"
    /\ UNCHANGED <<admitVars, poolVars, otherVars>>
    /\ UNCHANGED <<cfg, sent, bw, wire, ctx, ctxPool, allocated, tasks,
                   outcome,
                   handled, closeCount, hj>>

\* serveConn, lazy branch, first part of acquireByteReader: the ctx goes
\* back to the pool while the loop waits in c.Read for the first byte.
LazyRelease ==
    /\ pc = "read"
    /\ \E lazy \in BOOLEAN : ~EagerRead(lazy, br.on)
    /\ connRequestNum' = connRequestNum + 1
    /\ ctxPool' = ctxPool \cup {ctx}
    /\ ctx' = 0
    /\ pc' = "firstbyte"
    /\ UNCHANGED <<admitVars, poolVars, otherVars>>
    /\ UNCHANGED <<cfg, sent, sock, br, bw, wire, ctxs, allocated, tasks, err,
                   outcome, handled, closeCount, hj>>

\* serveConn, lazy branch, rest of acquireByteReader and ReadLimitBody: a
\* ctx is acquired again, the reader is attached to its fbr.  ReadLimitBody
\* is given MaxRequestBodySize and nothing of GetOnly.
LazyRead ==
    /\ pc = "firstbyte"
    /\ \E c \in AcquireChoices(ctxPool, allocated),
          n \in FillChoices(0, Len(sock)) :
          LET res == ReadResult(<<>>, n, FALSE) IN
          /\ ctx' = c
          /\ ctxPool' = ctxPool \ {c}
          /\ allocated' = AllocAfter(c, allocated)
          /\ sock' = res.sock
          /\ br' = IF res.ok /\ Len(res.buf) > 0
                   THEN [on |-> TRUE, buf |-> res.buf, fbr |-> c]
                   ELSE NoReader
          /\ ctxs' = [ctxs EXCEPT ![c].Request = res.req]
          /\ err' = res.err
          /\ pc' = IF res.ok THEN "handler" ELSE "exit"
    /\ UNCHANGED <<admitVars, poolVars, otherVars>>
    /\ UNCHANGED <<cfg, sent, bw, wire, tasks, connRequestNum, outcome,
                   handled,
                   closeCount, hj>>

\* ------------------------------------------------------------------------
\* SpecConn: the handler
\* ------------------------------------------------------------------------
\* TimeoutHandler with timeout <= 0 returns h itself: ctx.Response.Reset()
\* and s.Handler(ctx) run h to its end on the loop's goroutine.
CallPlainHandler ==
    /\ pc = "handler"
    /\ ~cfg.useTimeout
    /\ LET req == ctxs[ctx].Request IN
       ctxs' = [ctxs EXCEPT
                  ![ctx].Response = [status |-> StatusOK,
                                     body |-> HBody(req.id),
                                     close |-> (req.want = "close")],
                  ![ctx].hijackHandler = (req.want = "hijack")]
    /\ handled' = Append(handled, ctxs[ctx].Request.id)
    /\ outcome' = [outcome EXCEPT ![connRequestNum] = "plain"]
    /\ pc' = "after"
    /\ UNCHANGED <<admitVars, poolVars, otherVars>>
    /\ UNCHANGED <<cfg, sent, sock, br, bw, wire, ctx, ctxPool, allocated,
                   tasks,
                   err, connRequestNum, closeCount, hj>>

\* TimeoutHandler's closure up to its select: ctx.Response.Reset(), the
\* goroutine running h(ctx) is started and the timer armed.
CallTimeoutHandler ==
    /\ pc = "handler"
    /\ cfg.useTimeout
    /\ ctxs' = [ctxs EXCEPT ![ctx].Response = ResetResponse]
    /\ tasks' = [tasks EXCEPT ![connRequestNum] =
                    [st |-> "start", ctx |-> ctx,
                     req |-> ctxs[ctx].Request, timedOut |-> FALSE]]
    /\ handled' = Append(handled, ctxs[ctx].Request.id)
    /\ pc' = "select"
    /\ UNCHANGED <<admitVars, poolVars, otherVars>>
    /\ UNCHANGED <<cfg, sent, sock, br, bw, wire, ctx, ctxPool, allocated, err,
                   connRequestNum, outcome, closeCount, hj>>

\* The goroutine of TimeoutHandler, h(ctx): h writes the first part of its
\* body and may ask for Connection: close or a hijack.
TaskWrite(i) ==
    /\ tasks[i].st = "start"
    /\ LET c == tasks[i].ctx
           req == tasks[i].req
       IN
       ctxs' = [ctxs EXCEPT
                  ![c].Response.body = @ \o Part(req.id),
                  ![c].Response.close = @ \/ (req.want = "close"),
                  ![c].hijackHandler = @ \/ (req.want = "hijack")]
    /\ tasks' = [tasks EXCEPT ![i].st = "mid"]
    /\ UNCHANGED <<admitVars, poolVars, otherVars>>
    /\ UNCHANGED <<cfg, sent, sock, br, bw, wire, ctx, ctxPool, allocated,
                   pc, err,
                   connRequestNum, outcome, handled, closeCount, hj>>

\* The goroutine of TimeoutHandler: h writes the rest of its body and
\* returns, then ch <- struct{}{} (ch has room for one value).
TaskReturn(i) ==
    /\ tasks[i].st = "mid"
    /\ LET c == tasks[i].ctx IN
       /\ ctxs[c].timeoutCh = 0
       /\ ctxs' = [ctxs EXCEPT
                     ![c].Response.body = @ \o Part(tasks[i].req.id),
                     ![c].timeoutCh = 1]
    /\ tasks' = [tasks EXCEPT ![i].st = "returned"]
    /\ UNCHANGED <<admitVars, poolVars, otherVars>>
    /\ UNCHANGED <<cfg, sent, sock, br, bw, wire, ctx, ctxPool, allocated,
                   pc, err,
                   connRequestNum, outcome, handled, closeCount, hj>>

\* TimeoutHandler's select, case <-ch
SelectDone ==
    /\ pc = "select"
    /\ ctxs[ctx].timeoutCh = 1
    /\ ctxs' = [ctxs EXCEPT ![ctx].timeoutCh = 0]
    /\ outcome' = [outcome EXCEPT ![connRequestNum] = "done"]
    /\ pc' = "after"
    /\ UNCHANGED <<admitVars, poolVars, otherVars>>
    /\ UNCHANGED <<cfg, sent, sock, br, bw, wire, ctx, ctxPool, allocated,
                   tasks,
                   err, connRequestNum, handled, closeCount, hj>>

\* TimeoutHandler's select, case <-ctx.timeoutTimer.C: ctx.TimeoutError(msg)
SelectTimer ==
    /\ pc = "select"
    /\ ctxs' = [ctxs EXCEPT ![ctx].timeoutErrMsg = cfg.msg]
    /\ outcome' = [outcome EXCEPT ![connRequestNum] = "timer"]
    /\ tasks' = [tasks EXCEPT ![connRequestNum].timedOut =
                    (tasks[connRequestNum].st # "returned")]
    /\ pc' = "after"
    /\ UNCHANGED <<admitVars, poolVars, otherVars>>
    /\ UNCHANGED <<cfg, sent, sock, br, bw, wire, ctx, ctxPool, allocated, err,
                   connRequestNum, handled, closeCount, hj>>

\* ------------------------------------------------------------------------
\* SpecConn: after the handler returned
\* ------------------------------------------------------------------------
\* What writeResponse serialises for the current iteration.
Entry(n, resp) ==
    [for |-> n, status |-> resp.status, body |-> resp.body,
     close |-> resp.close]

\* serveConn from "hijackHandler = ctx.hijackHandler" to the end of the loop
\* body: the 408 substitution on a fresh ctx, MaxRequestsPerConn,
\* writeResponse, the flush, the hijack hand-off.
AfterHandler ==
    /\ pc = "after"
    /\ LET old == ctx
           hijackHandler == ctxs[old].hijackHandler
           errMsg == ctxs[old].timeoutErrMsg
           timedOut == TimeoutSet(errMsg)
       IN
       \E c1 \in (IF timedOut THEN AcquireChoices(ctxPool, allocated)
                  ELSE {old}) :
          LET pool1 == ctxPool \ {c1}
              alloc1 == AllocAfter(c1, allocated)
              resp0 == IF timedOut
                       THEN [ErrorResponse(errMsg, StatusRequestTimeout)
                               EXCEPT !.close = TimeoutForcesClose(br.on)]
                       ELSE ctxs[old].Response
              resp1 == IF LimitReached(connRequestNum,
                                       cfg.MaxRequestsPerConn)
                       THEN [resp0 EXCEPT !.close = TRUE]
                       ELSE resp0
              out == bw.buf \o <<Entry(connRequestNum, resp1)>>
              connectionClose == ConnectionClose(resp1.close,
                                                 ctxs[c1].Request.close)
              flush == NeedFlush(br.on, connectionClose)
              hijack == hijackHandler /\ ~(flush /\ connectionClose)
              swap == hijack /\ br.on
          IN
          \E c2 \in (IF swap THEN AcquireChoices(pool1, alloc1)
                     ELSE {c1}) :
             /\ ctx' = c2
             /\ ctxPool' = pool1 \ {c2}
             /\ allocated' = AllocAfter(c2, alloc1)
             /\ ctxs' = [[ctxs EXCEPT ![old].hijackHandler = FALSE]
                            EXCEPT ![c1].Response = resp1]
             /\ IF flush \/ hijack
                THEN /\ wire' = wire \o out
                     /\ bw' = NoWriter
                ELSE /\ wire' = wire
                     /\ bw' = [on |-> TRUE, buf |-> out]
             /\ br' = IF swap THEN NoReader ELSE br
             /\ hj' = IF hijack
                      THEN [st |-> "running",
                            r |-> HijackReader(br.on, br.buf),
                            read |-> <<>>, how |-> "none"]
                      ELSE hj
             /\ err' = IF hijack THEN "errHijacked" ELSE "nil"
             /\ pc' = IF hijack \/ (flush /\ connectionClose)
                      THEN "exit" ELSE "read"
    /\ UNCHANGED <<admitVars, poolVars, otherVars>>
    /\ UNCHANGED <<cfg, sent, sock, tasks, connRequestNum, outcome, handled,
                   closeCount>>

\* serveConn after the loop (releaseReader, releaseWriter, releaseCtx) and
\* the end of ServeConn, which closes c unless the connection was hijacked.
Exit ==
    /\ pc = "exit"
    /\ br' = NoReader
    /\ bw' = NoWriter
    /\ ctxPool' = ctxPool \cup {ctx}
    /\ closeCount' = IF ServeConnCloses(err) THEN closeCount + 1
                     ELSE closeCount
    /\ pc' = "done"
    /\ UNCHANGED <<admitVars, poolVars, otherVars>>
    /\ UNCHANGED <<cfg, sent, sock, wire, ctx, ctxs, allocated, tasks, err,
                   connRequestNum, outcome, handled, hj>>

\* ------------------------------------------------------------------------
\* SpecConn: the hijacked connection
\* ------------------------------------------------------------------------
\* hijackConn.Read called by the HijackHandler: c.r.Read, where r is the
\* loop's buffered reader when it still held bytes, else the connection.
HijackRead ==
    /\ hj.st = "running"
    /\ Len(hj.r) + Len(sock) > 0
    /\ IF Len(hj.r) > 0
       THEN /\ hj' = [hj EXCEPT !.r = Tail(@),
                                !.read = Append(@, Head(hj.r))]
            /\ sock' = sock
       ELSE /\ hj' = [hj EXCEPT !.read = Append(@, Head(sock))]
            /\ sock' = Tail(sock)
    /\ UNCHANGED <<admitVars, poolVars, otherVars>>
    /\ UNCHANGED <<cfg, sent, br, bw, wire, ctx, ctxs, ctxPool, allocated,
                   tasks,
                   pc, err, connRequestNum, outcome, handled, closeCount>>

\* hijackConnHandler: h(hjc) returns or panics, the deferred function
\* recovers, releases the reader and calls c.Close().
HijackReturn ==
    /\ hj.st = "running"
    /\ \E how \in {"return", "panic"} :
          hj' = [hj EXCEPT !.st = "done", !.how = how]
    /\ closeCount' = closeCount + 1
    /\ UNCHANGED <<admitVars, poolVars, otherVars>>
    /\ UNCHANGED <<cfg, sent, sock, br, bw, wire, ctx, ctxs, ctxPool,
                   allocated,
                   tasks, pc, err, connRequestNum, outcome, handled>>

NextConn ==
    \/ Start
    \/ ReadEager
    \/ LazyRelease
    \/ LazyRead
    \/ CallPlainHandler
    \/ CallTimeoutHandler
    \/ \E i \in 1..MaxRequests : TaskWrite(i)
    \/ \E i \in 1..MaxRequests : TaskReturn(i)
    \/ SelectDone
    \/ SelectTimer
    \/ AfterHandler
    \/ Exit
    \/ HijackRead
    \/ HijackReturn

SpecConn == InitConn /\ [][NextConn]_vars

\* The same connection served through a Server whose Handler is not wrapped
\* in TimeoutHandler.
InitServe == InitConn /\ ~cfg.useTimeout

NextServe ==
    \/ Start
    \/ ReadEager
    \/ LazyRelease
    \/ LazyRead
    \/ CallPlainHandler
    \/ AfterHandler
    \/ Exit
    \/ HijackRead
    \/ HijackReturn

SpecServe == InitServe /\ [][NextServe]_vars

\* ------------------------------------------------------------------------
\* Claims about one served connection
\* ------------------------------------------------------------------------
\* The responses handed to the connection so far: those flushed, and,
\* while the loop still runs, those waiting in the loop's writer.
Produced == IF pc = "done" THEN wire ELSE wire \o bw.buf

ResponsesFor(n) == SelectSeq(Produced, LAMBDA e : e.for = n)

\* Iteration n of the loop has written its response and gone on.
IterationOver(n) == connRequestNum > n \/ pc \in {"exit", "done"}

\* C1: every request handled through TimeoutHandler(h, d, msg) gets exactly
\* one response on the connection: the response h produced when h returned
\* before the timer fired, the 408 substitution when the timer fired
\* first; never both, never neither, never a mixture.
C1_ExactlyOneResponse ==
    \A n \in 1..MaxRequests :
        (outcome[n] \in {"done", "timer"} /\ IterationOver(n)) =>
            LET rs == ResponsesFor(n) IN
            /\ Len(rs) = 1
            /\ outcome[n] = "done" =>
                  /\ rs[1].status = StatusOK
                  /\ rs[1].body = HBody(tasks[n].req.id)
            /\ outcome[n] = "timer" =>
                  /\ rs[1].status = StatusRequestTimeout
                  /\ rs[1].body = MsgBody(cfg.msg)

\* C2: whenever the TimeoutHandler timer fires before the wrapped handler
\* returns, for any msg and whether the request reader is still attached
\* or was released, the response has status 408, msg as its body and
\* Connection: close, and the server reads no further request from the
\* connection.
C2_TimeoutAnswers408AndCloses ==
    \A n \in 1..MaxRequests :
        (outcome[n] = "timer" /\ tasks[n].timedOut) =>
            /\ connRequestNum = n
            /\ pc \in {"after", "exit", "done"}
            /\ \A i \in 1..Len(ResponsesFor(n)) :
                  /\ ResponsesFor(n)[i].status = StatusRequestTimeout
                  /\ ResponsesFor(n)[i].body = MsgBody(cfg.msg)
                  /\ ResponsesFor(n)[i].close

\* C3: a RequestCtx whose handler task is still running after the
\* TimeoutHandler timer fired is never in the context pool, and the loop
\* does not use it for another request.
C3_TimedOutCtxNeverPooled ==
    \A n \in 1..MaxRequests :
        (tasks[n].timedOut /\ tasks[n].st # "returned") =>
            /\ tasks[n].ctx \notin ctxPool
            /\ (tasks[n].ctx = ctx => connRequestNum = n)

\* The complete requests the peer sends, in arrival order.
NumSent == Len(sent) \div 2
SentRequest(i) == sent[2 * i].req

\* The peer sends only whole keep-alive requests that the handler answers
\* without asking for close or hijack, and no request limit is configured.
KeepAliveRun ==
    /\ Len(sent) = 2 * NumSent
    /\ \A i \in 1..NumSent :
          ~SentRequest(i).close /\ SentRequest(i).want = "none"
    /\ cfg.MaxRequestsPerConn = 0

C10_HijackedClosedOnceByHandler ==
    /\ closeCount <= 1
    /\ hj.st = "running" =>
          /\ closeCount = 0
          /\ pc \in {"exit", "done"}
          /\ err = "errHijacked"
    /\ hj.st = "done" =>
          /\ closeCount = 1
          /\ pc \in {"exit", "done"}
          /\ err = "errHijacked"

\* C10 witness: the loop has ended, the hijack handler read bytes the peer
\* sent after the hijacking request and panicked, the connection is closed.
C10_Witness ==
    /\ pc = "done"
    /\ hj.st = "done"
    /\ hj.how = "panic"
    /\ Len(hj.read) > 0
    /\ closeCount = 1

\* ------------------------------------------------------------------------
\* SpecAdmit: concurrent calls of Server.ServeConn
\* ------------------------------------------------------------------------
InitAdmit ==
    /\ cfg \in [MaxConnsPerIP : Limits, Concurrency : Limits]
    /\ conns \in {[c \in Conns |-> NewConn(f[c], "start")] : f \in Arrivals}
    /\ perIPConnCounter = EmptyTable
    /\ concurrency = 0
    /\ NoLoop
    /\ NoOther
    /\ NoPool

\* ServeConn: if s.MaxConnsPerIP > 0, wrapPerIPConn up to
\* n := s.perIPConnCounter.Register(ip); a connection with ip 0 is passed
\* on as it is.
WrapRegister(c) ==
    /\ conns[c].pc = "start"
    /\ IF WrapGuard(cfg.MaxConnsPerIP) /\ conns[c].ip # 0
       THEN /\ perIPConnCounter' = Register(perIPConnCounter, conns[c].ip)
            /\ conns' = [conns EXCEPT
                           ![c].n = Count(perIPConnCounter, conns[c].ip) + 1,
                           ![c].regs = @ + 1,
                           ![c].pc = "wrapped"]
       ELSE /\ perIPConnCounter' = perIPConnCounter
            /\ conns' = [conns EXCEPT ![c].pc = "add"]
    /\ UNCHANGED <<otherVars, cfg, loopVars, concurrency, poolVars>>

\* wrapPerIPConn from "if n > s.MaxConnsPerIP" and ServeConn's
\* "if pic == nil { c.Close(); return ErrPerIPConnLimit }; c = pic".
WrapCheck(c) ==
    /\ conns[c].pc = "wrapped"
    /\ IF OverLimit(conns[c].n, cfg.MaxConnsPerIP)
       THEN /\ perIPConnCounter' = Unregister(perIPConnCounter, conns[c].ip)
            /\ conns' = [conns EXCEPT ![c].unregs = @ + 1,
                                      ![c].closes = @ + 1,
                                      ![c].err = "ErrPerIPConnLimit",
                                      ![c].pc = "done"]
       ELSE /\ perIPConnCounter' = perIPConnCounter
            /\ conns' = [conns EXCEPT ![c].pic = TRUE, ![c].pc = "add"]
    /\ UNCHANGED <<otherVars, cfg, loopVars, concurrency, poolVars>>

\* ServeConn: n := atomic.AddUint32(&s.concurrency, 1)
ConcurrencyAdd(c) ==
    /\ conns[c].pc = "add"
    /\ concurrency' = Inc32(concurrency)
    /\ conns' = [conns EXCEPT ![c].cn = Inc32(concurrency),
                              ![c].pc = "added"]
    /\ UNCHANGED <<otherVars, cfg, loopVars, perIPConnCounter, poolVars>>

\* ServeConn: if n > uint32(s.getConcurrency()) { decrement; c.Close();
\* return ErrConcurrencyLimit }, else serveConn(c) is entered.
ConcurrencyCheck(c) ==
    /\ conns[c].pc = "added"
    /\ IF OverConcurrency(conns[c].cn, getConcurrency(cfg.Concurrency))
       THEN /\ concurrency' = Dec32(concurrency)
            /\ perIPConnCounter' = TableAfterClose(perIPConnCounter, conns[c])
            /\ conns' = [conns EXCEPT
                           ![c] = [Closed(@) EXCEPT
                                      !.err = "ErrConcurrencyLimit",
                                      !.pc = "done"]]
       ELSE /\ concurrency' = concurrency
            /\ perIPConnCounter' = perIPConnCounter
            /\ conns' = [conns EXCEPT ![c].pc = "serving"]
    /\ UNCHANGED <<otherVars, cfg, loopVars, poolVars>>

\* ServeConn from the return of serveConn(c) to its own return: serveConn
\* returned e, having run the handler or not (a hijack is asked for by the
\* handler, errRead stands for a first request that could not be read);
\* the counter is decremented and c closed unless hijacked.
ServeConnReturn(c) ==
    /\ conns[c].pc = "serving"
    /\ \E e \in {"nil", "errRead", "errHijacked"}, h \in BOOLEAN :
          /\ e = "errHijacked" => h
          /\ e = "errRead" => ~h
          /\ concurrency' = Dec32(concurrency)
          /\ IF ServeConnCloses(e)
             THEN /\ perIPConnCounter' =
                         TableAfterClose(perIPConnCounter, conns[c])
                  /\ conns' = [conns EXCEPT
                                 ![c] = [Closed(@) EXCEPT !.handler = h,
                                                          !.err = e,
                                                          !.pc = "done"]]
             ELSE /\ perIPConnCounter' = perIPConnCounter
                  /\ conns' = [conns EXCEPT ![c].handler = h,
                                            ![c].pc = "hijacked"]
    /\ UNCHANGED <<otherVars, cfg, loopVars, poolVars>>

\* hijackConnHandler's deferred c.Close(), after the HijackHandler returned
\* or panicked.
HijackClose(c) ==
    /\ conns[c].pc = "hijacked"
    /\ perIPConnCounter' = TableAfterClose(perIPConnCounter, conns[c])
    /\ conns' = [conns EXCEPT ![c] = [Closed(@) EXCEPT !.pc = "done"]]
    /\ UNCHANGED <<otherVars, cfg, loopVars, concurrency, poolVars>>

NextAdmit ==
    \/ \E c \in Conns : WrapRegister(c)
    \/ \E c \in Conns : WrapCheck(c)
    \/ \E c \in Conns : ConcurrencyAdd(c)
    \/ \E c \in Conns : ConcurrencyCheck(c)
    \/ \E c \in Conns : ServeConnReturn(c)
    \/ \E c \in Conns : HijackClose(c)

SpecAdmit == InitAdmit /\ [][NextAdmit]_vars

\* ------------------------------------------------------------------------
\* Claims about admission
\* ------------------------------------------------------------------------
\* The ServeConn calls that are inside serveConn.
Serving == {c \in Conns : conns[c].pc = "serving"}

\* ServeConn has decided about the concurrency limit for c.
PastConcurrencyCheck(c) == conns[c].pc \in {"serving", "hijacked", "done"}

\* C5: never more than Concurrency ServeConn calls are serving a connection
\* at once; a call whose increment took the counter over the limit ends
\* with its connection closed once, ErrConcurrencyLimit, and no handler call.
C5_ConcurrencyNeverExceeded ==
    LET limit == getConcurrency(cfg.Concurrency) IN
    /\ Cardinality(Serving) <= limit
    /\ \A c \in Conns :
          /\ (PastConcurrencyCheck(c) /\ conns[c].cn > limit) =>
                /\ conns[c].pc = "done"
                /\ conns[c].err = "ErrConcurrencyLimit"
          /\ conns[c].err = "ErrConcurrencyLimit" =>
                /\ conns[c].pc = "done"
                /\ conns[c].closes = 1
                /\ ~conns[c].handler

\* C5 witness: Concurrency calls are serving and one more call has been
\* turned away with ErrConcurrencyLimit.
C5_Witness ==
    /\ Cardinality(Serving) = getConcurrency(cfg.Concurrency)
    /\ \E c \in Conns :
          conns[c].pc = "done" /\ conns[c].err = "ErrConcurrencyLimit"

\* Connections from ip that wrapPerIPConn let through and that ServeConn or
\* the hijack handler still holds open.
ServedFrom(ip) ==
    {c \in Conns : /\ conns[c].ip = ip
                   /\ conns[c].pc \in {"add", "added", "serving", "hijacked"}}

\* C6: with MaxConnsPerIP = m > 0 no IPv4 address has more than m open
\* connections being served; a connection that found the count above m is
\* closed at once with ErrPerIPConnLimit and never reaches the handler.
C6_PerIPLimitNeverExceeded ==
    cfg.MaxConnsPerIP > 0 =>
        /\ \A ip \in Addrs \ {0} :
              Cardinality(ServedFrom(ip)) <= cfg.MaxConnsPerIP
        /\ \A c \in Conns :
              (conns[c].n > cfg.MaxConnsPerIP /\ conns[c].pc # "wrapped")
                 => /\ conns[c].pc = "done"
                    /\ conns[c].err = "ErrPerIPConnLimit"
                    /\ conns[c].closes = 1
                    /\ ~conns[c].handler

\* C6 witness: an address has MaxConnsPerIP connections open, one of them
\* inside serveConn, and a further connection from it has been turned away.
C6_Witness ==
    /\ cfg.MaxConnsPerIP > 0
    /\ \E c \in Conns, d \in Conns :
          /\ conns[c].ip = conns[d].ip
          /\ conns[c].pc = "serving"
          /\ Cardinality(ServedFrom(conns[c].ip)) = cfg.MaxConnsPerIP
          /\ conns[d].pc = "done"
          /\ conns[d].err = "ErrPerIPConnLimit"

\* Connections from ip that Register counted within the limit (admitted)
\* and that have not been closed.
AdmittedOpen(ip) ==
    {c \in Conns : /\ conns[c].ip = ip
                   /\ conns[c].regs = 1
                   /\ conns[c].n <= cfg.MaxConnsPerIP
                   /\ conns[c].closes = 0}

\* Connections from ip that Register counted above the limit and that
\* wrapPerIPConn has not unregistered yet.
BeingRejected(ip) ==
    {c \in Conns : /\ conns[c].ip = ip
                   /\ conns[c].pc = "wrapped"
                   /\ conns[c].n > cfg.MaxConnsPerIP}

\* C7 as stated: the count of every address always equals the number of
\* admitted connections from it that are not closed.
C7_CountEqualsOpenAdmitted ==
    \A ip \in Addrs \ {0} :
        Count(perIPConnCounter, ip) = Cardinality(AdmittedOpen(ip))

\* C7 amended: the count of every address equals the number of admitted
\* connections from it that are not closed plus the number of connections
\* from it that are registered and about to be rejected; the table holds no
\* entry for an address without such connections; every connection is
\* closed once and unregistered as often as registered, at most once, by
\* the time its ServeConn call and its hijack handler are over.
C7_CountEqualsOpenPlusRejecting ==
    /\ \A ip \in Addrs \ {0} :
          /\ Count(perIPConnCounter, ip) =
                Cardinality(AdmittedOpen(ip)) + Cardinality(BeingRejected(ip))
          /\ (AdmittedOpen(ip) = {} /\ BeingRejected(ip) = {})
                => ip \notin DOMAIN perIPConnCounter
    /\ 0 \notin DOMAIN perIPConnCounter
    /\ \A c \in Conns :
          /\ conns[c].unregs <= conns[c].regs
          /\ conns[c].regs <= 1
          /\ conns[c].closes <= 1
          /\ conns[c].pc = "done" =>
                /\ conns[c].closes = 1
                /\ conns[c].unregs = conns[c].regs

\* C7 witness: every call is over, an admitted connection was turned away
\* for concurrency, another was served, and the table is empty again.
C7_Witness ==
    /\ \A c \in Conns : conns[c].pc = "done"
    /\ \E c \in Conns, d \in Conns :
          /\ conns[c].pic /\ conns[c].err = "ErrConcurrencyLimit"
          /\ conns[d].pic /\ conns[d].handler
    /\ perIPConnCounter = EmptyTable

\* ------------------------------------------------------------------------
\* SpecOldServeConn: concurrent calls of Server.ServeConn of server.go
\* ------------------------------------------------------------------------
InitOldServeConn ==
    /\ cfg \in [MaxConnsPerIP : Limits]
    /\ conns \in {[c \in OldConns |-> NewConn(f[c], "start")] :
                     f \in ArrivalsOf(NumConns + 1)}
    /\ perIPConnCounter = EmptyTable
    /\ concurrency = 0
    /\ NoLoop
    /\ NoOther
    /\ NoPool

\* ServeConn of server.go: conn, ok := c.(net.Conn); if ok, wrapPerIPConn up
\* to n := s.perIPConnCounter.Register(ip).  Every connection here is a
\* net.Conn; one with ip 0 is passed on as it is.
OldWrapRegister(c) ==
    /\ conns[c].pc = "start"
    /\ IF conns[c].ip # 0
       THEN /\ perIPConnCounter' = Register(perIPConnCounter, conns[c].ip)
            /\ conns' = [conns EXCEPT
                           ![c].n = Count(perIPConnCounter, conns[c].ip) + 1,
                           ![c].regs = @ + 1,
                           ![c].pc = "wrapped"]
       ELSE /\ perIPConnCounter' = perIPConnCounter
            /\ conns' = [conns EXCEPT ![c].pc = "serving"]
    /\ UNCHANGED <<otherVars, cfg, loopVars, concurrency, poolVars>>

\* wrapPerIPConn of server.go from "if n > s.MaxConnsPerIP" and ServeConn's
\* "if pic == nil { c.Close(); return ErrPerIPConnLimit }; c = pic".
OldWrapCheck(c) ==
    /\ conns[c].pc = "wrapped"
    /\ IF OverLimit(conns[c].n, cfg.MaxConnsPerIP)
       THEN /\ perIPConnCounter' = Unregister(perIPConnCounter, conns[c].ip)
            /\ conns' = [conns EXCEPT ![c].unregs = @ + 1,
                                      ![c].closes = @ + 1,
                                      ![c].err = "ErrPerIPConnLimit",
                                      ![c].pc = "done"]
       ELSE /\ perIPConnCounter' = perIPConnCounter
            /\ conns' = [conns EXCEPT ![c].pic = TRUE, ![c].pc = "serving"]
    /\ UNCHANGED <<otherVars, cfg, loopVars, concurrency, poolVars>>

\* return s.serveConn(c): serveConn of server.go runs to its end, having
\* run the handler or not, and closes c before it returns.
OldServeConnReturn(c) ==
    /\ conns[c].pc = "serving"
    /\ \E e \in {"nil", "errRead"}, h \in BOOLEAN :
          /\ e = "errRead" => ~h
          /\ conns' = [conns EXCEPT
                         ![c] = [Closed(@) EXCEPT !.handler = h,
                                                  !.err = e,
                                                  !.pc = "done"]]
    /\ perIPConnCounter' = TableAfterClose(perIPConnCounter, conns[c])
    /\ UNCHANGED <<otherVars, cfg, loopVars, concurrency, poolVars>>

NextOldServeConn ==
    \/ \E c \in OldConns : OldWrapRegister(c)
    \/ \E c \in OldConns : OldWrapCheck(c)
    \/ \E c \in OldConns : OldServeConnReturn(c)

SpecOldServeConn == InitOldServeConn /\ [][NextOldServeConn]_vars

\* C8: with MaxConnsPerIP left at zero ServeConn rejects no connection for
\* its source address: no call ends with ErrPerIPConnLimit, whatever the
\* number of connections the address has open.
C8_DefaultNeverRejects ==
    cfg.MaxConnsPerIP = 0 =>
        \A c \in OldConns : conns[c].err # "ErrPerIPConnLimit"

\* ------------------------------------------------------------------------
\* SpecWorkers: Server.ServerConcurrency of server.go, its monitor and its
\* workers
\* ------------------------------------------------------------------------
InitWorkers ==
    /\ cfg \in [MaxConnsPerIP : Limits, concurrency : Limits \ {0}]
    /\ conns \in {[c \in OldConns |-> NewConn(f[c], "listen")] :
                     f \in ArrivalsOf(NumConns + 1)}
    /\ perIPConnCounter = EmptyTable
    /\ concurrency = 0
    /\ ch = <<>>
    /\ workersCount = 0
    /\ idleWorkers = 0
    /\ monitor = [IdleMonitor EXCEPT !.pc = "load"]
    /\ stopCh = FALSE
    /\ NoLoop
    /\ NoOther

\* acceptConn's verdict on connection record r: with MaxConnsPerIP > 0 the
\* connection is wrapped, or closed and skipped when its address is over
\* the limit.  Register, the comparison and Unregister are taken as one
\* step of the accepting goroutine.
Accepted(r) ==
    IF WrapGuard(cfg.MaxConnsPerIP) /\ r.ip # 0
    THEN LET n == Count(perIPConnCounter, r.ip) + 1 IN
         IF OverLimit(n, cfg.MaxConnsPerIP)
         THEN [r EXCEPT !.n = n, !.regs = 1, !.unregs = 1, !.closes = 1,
                        !.pc = "done"]
         ELSE [r EXCEPT !.n = n, !.regs = 1, !.pic = TRUE]
    ELSE r

\* One round of ServerConcurrency's loop: acceptConn, then
\* select { case ch <- c: default: c.Close() }.
Accept(c) ==
    /\ ~stopCh
    /\ conns[c].pc = "listen"
    /\ LET r == Accepted(conns[c])
           tab == IF r.pic THEN Register(perIPConnCounter, r.ip)
                  ELSE perIPConnCounter
       IN
       IF r.pc = "done"
       THEN /\ conns' = [conns EXCEPT ![c] = r]
            /\ perIPConnCounter' = perIPConnCounter
            /\ ch' = ch
       ELSE IF Len(ch) < ChanCap(cfg.concurrency)
       THEN /\ conns' = [conns EXCEPT ![c] = [r EXCEPT !.pc = "queued"]]
            /\ perIPConnCounter' = tab
            /\ ch' = Append(ch, c)
       ELSE /\ conns' = [conns EXCEPT ![c] = [Closed(r) EXCEPT !.pc = "done"]]
            /\ perIPConnCounter' = TableAfterClose(tab, r)
            /\ ch' = ch
    /\ UNCHANGED <<otherVars, cfg, loopVars, concurrency, workersCount, idleWorkers,
                   monitor, stopCh>>

\* ServerConcurrency: acceptConn returned an error; close(stopCh), return.
AcceptError ==
    /\ ~stopCh
    /\ stopCh' = TRUE
    /\ UNCHANGED <<otherVars, cfg, loopVars, admitVars, ch, workersCount, idleWorkers,
                   monitor>>

\* connWorkersMonitor: n := workersCount, pendingConns := len(ch), and the
\* test that chooses between spawning and waiting.
MonitorLoad ==
    /\ monitor.pc = "load"
    /\ monitor' = [pc |-> IF SpawnGuard(workersCount, cfg.concurrency, Len(ch))
                          THEN "spawn" ELSE "wait",
                   n |-> workersCount, pendingConns |-> Len(ch), i |-> 0]
    /\ UNCHANGED <<otherVars, cfg, loopVars, admitVars, ch, workersCount, idleWorkers,
                   stopCh>>

\* connWorkersMonitor: one round of "for i := 0; i < pendingConns; i++",
\* which counts and starts a connWorker, or the end of that loop.
MonitorSpawn ==
    /\ monitor.pc = "spawn"
    /\ IF monitor.i < monitor.pendingConns
       THEN /\ workersCount' = Inc32(workersCount)
            /\ idleWorkers' = idleWorkers + 1
            /\ monitor' = [monitor EXCEPT !.i = @ + 1]
       ELSE /\ workersCount' = workersCount
            /\ idleWorkers' = idleWorkers
            /\ monitor' = [monitor EXCEPT !.pc = "load"]
    /\ UNCHANGED <<otherVars, cfg, loopVars, admitVars, ch, stopCh>>

\* connWorkersMonitor: case <-tc.C after 100 milliseconds
MonitorTimer ==
    /\ monitor.pc = "wait"
    /\ monitor' = [monitor EXCEPT !.pc = "load"]
    /\ UNCHANGED <<otherVars, cfg, loopVars, admitVars, ch, workersCount, idleWorkers,
                   stopCh>>

\* connWorkersMonitor: case <-stopCh
MonitorStop ==
    /\ monitor.pc = "wait"
    /\ stopCh
    /\ monitor' = [monitor EXCEPT !.pc = "stopped"]
    /\ UNCHANGED <<otherVars, cfg, loopVars, admitVars, ch, workersCount, idleWorkers,
                   stopCh>>

\* connWorker: c = <-ch
WorkerTake(c) ==
    /\ idleWorkers > 0
    /\ Len(ch) > 0
    /\ Head(ch) = c
    /\ ch' = Tail(ch)
    /\ idleWorkers' = idleWorkers - 1
    /\ conns' = [conns EXCEPT ![c].pc = "serving"]
    /\ UNCHANGED <<otherVars, cfg, loopVars, perIPConnCounter, concurrency, workersCount,
                   monitor, stopCh>>

\* connWorker: s.serveConn(c), which closes c at its end; the worker goes
\* back to its select.
WorkerServe(c) ==
    /\ conns[c].pc = "serving"
    /\ \E e \in {"nil", "errRead"}, h \in BOOLEAN :
          /\ e = "errRead" => ~h
          /\ conns' = [conns EXCEPT
                         ![c] = [Closed(@) EXCEPT !.handler = h,
                                                  !.err = e,
                                                  !.pc = "done"]]
    /\ perIPConnCounter' = TableAfterClose(perIPConnCounter, conns[c])
    /\ idleWorkers' = idleWorkers + 1
    /\ UNCHANGED <<otherVars, cfg, loopVars, concurrency, ch, workersCount, monitor,
                   stopCh>>

\* connWorker: no connection arrived within a second; the worker returns
\* and the goroutine's closure decrements workersCount.
WorkerIdleExit ==
    /\ idleWorkers > 0
    /\ Len(ch) = 0
    /\ idleWorkers' = idleWorkers - 1
    /\ workersCount' = Dec32(workersCount)
    /\ UNCHANGED <<otherVars, cfg, loopVars, admitVars, ch, monitor, stopCh>>

NextWorkers ==
    \/ \E c \in OldConns : Accept(c)
    \/ AcceptError
    \/ MonitorLoad
    \/ MonitorSpawn
    \/ MonitorTimer
    \/ MonitorStop
    \/ \E c \in OldConns : WorkerTake(c)
    \/ \E c \in OldConns : WorkerServe(c)
    \/ WorkerIdleExit

SpecWorkers == InitWorkers /\ [][NextWorkers]_vars

\* C9: the number of connWorker goroutines alive, and with it the number of
\* connections served at once through ServerConcurrency, never exceeds the
\* concurrency it was given.
C9_WorkersWithinMaximum ==
    /\ workersCount <= cfg.concurrency
    /\ Cardinality({c \in OldConns : conns[c].pc = "serving"})
          <= cfg.concurrency

\* ------------------------------------------------------------------------
\* Further claims about one served connection
\* ------------------------------------------------------------------------
\* What the peer sent after the last request the handler was called for.
SentAfterLastHandled == SubSeqFrom(sent, 2 * Len(handled) + 1)

\* C11: what the hijack handler has read, followed by what its reader
\* still holds and what is still in the socket, is exactly what the peer
\* sent after the hijacking request, in order: nothing lost, nothing twice,
\* the bytes the loop's buffered reader had already taken included.
C11_HijackReadsWhatPeerSent ==
    hj.st \in {"running", "done"} =>
        hj.read \o hj.r \o sock = SentAfterLastHandled

\* C11 witness: the hijack handler has read a piece that the loop's reader
\* had buffered before the hand-off, and more buffered pieces wait.
C11_Witness ==
    /\ hj.st = "running"
    /\ Len(hj.read) > 0
    /\ Len(hj.r) > 0

\* Request i carries Connection: close, or a response produced for it does.
CarriesClose(i) ==
    \/ SentRequest(i).close
    \/ \E k \in 1..Len(ResponsesFor(i)) : ResponsesFor(i)[k].close

\* C12: once the iteration of a handled request is over and the request or
\* its response carries the close flag, the response is flushed to the
\* connection, no further request has been read, the handler was not
\* called again, and the loop is at its end, where ServeConn closes the
\* connection.
C12_CloseFlagEndsConnection ==
    \A i \in 1..Len(handled) :
        (CarriesClose(i) /\ IterationOver(i)) =>
            /\ \E k \in 1..Len(wire) : wire[k].for = i
            /\ bw.buf = <<>>
            /\ connRequestNum = i
            /\ Len(handled) = i
            /\ pc \in {"exit", "done"}
            /\ pc = "done" => closeCount = 1

\* ------------------------------------------------------------------------
\* SpecServeErr: one connection served by serveConn with a handler called
\* directly, where the peer may send a malformed request and a write to the
\* connection may fail
\* ------------------------------------------------------------------------
\* k requests of which request b is malformed; the requests behind it are
\* never parsed.
BadStream(f, b) ==
    [j \in 1..(2 * Len(f)) |->
        IF (j + 1) \div 2 = b THEN Unit(b, NoReq, 0)
        ELSE IF (j + 1) \div 2 > b
             THEN Unit((j + 1) \div 2, NoReq, ((j - 1) % 2) + 1)
             ELSE Unit((j + 1) \div 2, f[(j + 1) \div 2], ((j - 1) % 2) + 1)]

BadStreams ==
    UNION {{BadStream(f, b) : f \in [1..k -> ReqAttrs], b \in 1..k} :
             k \in 1..(MaxRequests + 1)}

InitServeErr ==
    /\ cfg \in {c \in Configs : ~c.useTimeout}
    /\ sent \in Streams \cup BadStreams
    /\ sock = sent
    /\ br = NoReader
    /\ bw = NoWriter
    /\ wire = <<>>
    /\ ctx = 0
    /\ \E stale \in BOOLEAN :
          /\ allocated = (IF stale THEN 1 ELSE 0)
          /\ ctxPool = (IF stale THEN {1} ELSE {})
          /\ ctxs = [i \in 1..NumCtx |->
                        IF stale /\ i = 1 THEN StaleCtx ELSE FreshCtx]
    /\ tasks = [i \in 1..MaxRequests |-> NoTask]
    /\ pc = "start"
    /\ err = "nil"
    /\ connRequestNum = 0
    /\ outcome = [i \in Iterations |-> "none"]
    /\ handled = <<>>
    /\ closeCount = 0
    /\ hj = [st |-> "none", r |-> <<>>, read |-> <<>>, how |-> "none"]
    /\ NoAdmission
    /\ NoOther
    /\ NoPool

\* serveConn from "hijackHandler = ctx.hijackHandler" on, when a write to
\* the connection fails: writeResponse (the buffer fills up and is written
\* out), the flush after it, or the flush before the hijack hand-off
\* returns an error and the loop breaks.  The responses buffered in front of
\* the one being written may have reached the peer, the one being written
\* has not reached it whole; the writer is released with what it holds.
WriteFails ==
    /\ pc = "after"
    /\ LET old == ctx
           errMsg == ctxs[old].timeoutErrMsg
           timedOut == TimeoutSet(errMsg)
       IN
       \E c1 \in (IF timedOut THEN AcquireChoices(ctxPool, allocated)
                  ELSE {old}) :
          LET resp0 == IF timedOut
                       THEN [ErrorResponse(errMsg, StatusRequestTimeout)
                               EXCEPT !.close = TimeoutForcesClose(br.on)]
                       ELSE ctxs[old].Response
              resp1 == IF LimitReached(connRequestNum,
                                       cfg.MaxRequestsPerConn)
                       THEN [resp0 EXCEPT !.close = TRUE]
                       ELSE resp0
          IN
          \E k \in 0..Len(bw.buf) :
             /\ ctx' = c1
             /\ ctxPool' = ctxPool \ {c1}
             /\ allocated' = AllocAfter(c1, allocated)
             /\ ctxs' = [[ctxs EXCEPT ![old].hijackHandler = FALSE]
                            EXCEPT ![c1].Response = resp1]
             /\ wire' = wire \o SubSeq(bw.buf, 1, k)
             /\ bw' = NoWriter
             /\ err' = "errWrite"
             /\ pc' = "exit"
    /\ UNCHANGED <<admitVars, poolVars, otherVars>>
    /\ UNCHANGED <<cfg, sent, sock, br, tasks, connRequestNum, outcome,
                   handled, closeCount, hj>>

NextServeErr ==
    \/ NextServe
    \/ WriteFails

SpecServeErr == InitServeErr /\ [][NextServeErr]_vars

\* The loop has left with a read, parse or write error.
ConnFailed == err \in {"errRead", "errParse", "errWrite"}

\* Nothing of a response to request number n is in the writer or on the
\* connection.
NoResponseFor(n) ==
    /\ \A k \in 1..Len(wire) : wire[k].for # n
    /\ \A k \in 1..Len(bw.buf) : bw.buf[k].for # n

\* C13: once a read, a parse or a write on the connection has failed, the
\* loop is at its end and the connection is closed when ServeConn returns,
\* no hijack handler runs; a request that failed to be read or parsed was
\* not given to the handler and nothing of a response to it exists; and from
\* then on the handler is not called, no response reaches the connection
\* and nothing more is read from it.
C13_ErrorEndsConnection ==
    /\ [](ConnFailed =>
            /\ pc \in {"exit", "done"}
            /\ hj.st = "none"
            /\ pc = "done" => closeCount = 1
            /\ err \in {"errRead", "errParse"} =>
                  /\ Len(handled) = connRequestNum - 1
                  /\ \A k \in 1..Len(handled) : handled[k] # connRequestNum
                  /\ NoResponseFor(connRequestNum))
    /\ [][ConnFailed =>
            /\ handled' = handled
            /\ wire' = wire
            /\ sock' = sock
            /\ connRequestNum' = connRequestNum
            /\ ConnFailed']_vars

\* A request was served, the next one was malformed, and more bytes were
\* waiting behind it when the connection was closed.
C13_Witness ==
    /\ pc = "done"
    /\ err = "errParse"
    /\ handled = <<1>>
    /\ Len(wire) = 1
    /\ Len(sock) > 0

\* ------------------------------------------------------------------------
\* Further claims about one served connection: the request limit
\* ------------------------------------------------------------------------
\* C14: with MaxRequestsPerConn = m > 0 the handler is called at most m
\* times on the connection; once the m-th iteration is over its response
\* is on the connection and carries Connection: close, no further request
\* was read, no hijack handler was started, and the loop is at its end,
\* where ServeConn closes the connection.
C14_RequestLimitClosesConnection ==
    LET m == cfg.MaxRequestsPerConn IN
    m > 0 =>
        /\ Len(handled) <= m
        /\ (Len(handled) = m /\ IterationOver(m)) =>
              /\ \E k \in 1..Len(wire) : wire[k].for = m /\ wire[k].close
              /\ \A k \in 1..Len(wire) : wire[k].for = m => wire[k].close
              /\ bw.buf = <<>>
              /\ connRequestNum = m
              /\ hj.st = "none"
              /\ pc \in {"exit", "done"}
              /\ pc = "done" => closeCount = 1

\* The limit is one, the first request asked for nothing, its response
\* went out with Connection: close and the loop ended while the reader
\* still held the next pipelined request.
C14_Witness ==
    /\ cfg.MaxRequestsPerConn = 1
    /\ pc = "exit"
    /\ handled = <<1>>
    /\ ~SentRequest(1).close
    /\ SentRequest(1).want = "none"
    /\ Len(wire) = 1
    /\ wire[1].close
    /\ br.on
    /\ Len(br.buf) >= 2

\* ------------------------------------------------------------------------
\* SpecTimed: the deadlines of one connection inside serveConn.  Time is
\* counted in ticks of 50 ms; the clock can advance between any two steps.
\* ------------------------------------------------------------------------
\* 100 * time.Millisecond, in ticks.
Grace == 2

\* ReadTimeout, WriteTimeout, MaxKeepaliveDuration: unset, shorter than the
\* grace period, longer than it.
Durations == {0, 1, 3}

InitTimed ==
    /\ cfg \in [ReadTimeout : Durations, WriteTimeout : Durations,
                MaxKeepaliveDuration : Durations]
    /\ NoLoop
    /\ NoAdmission
    /\ NoPool
    /\ NoClient
    /\ NoRest
    /\ tnow = 0
    /\ connTime = 0
    /\ currentTime = 0
    /\ readDeadline = NoDeadline
    /\ writeDeadline = NoDeadline
    /\ tpc = "top"
    /\ terr = "nil"
    /\ tbr = FALSE
    /\ tclose = FALSE
    /\ tlast = NoLast

\* A deadline d set on the connection has expired at time t: the read or
\* write fails at once with a timeout.
Expired(d, t) == d # NoDeadline /\ t >= d

\* serveConn: the readTimeout added to currentTime for the read deadline.
ReadTimeoutFor(rt, mkd, elapsed) ==
    IF mkd > 0 /\ mkd - elapsed < rt THEN mkd - elapsed ELSE rt

\* serveConn: the writeTimeout added to time.Now() for the write deadline;
\* over: MaxKeepaliveDuration is exceeded.
WriteTimeoutFor(wt, mkd, elapsed) ==
    LET connTimeout == IF mkd - elapsed <= 0 THEN Grace ELSE mkd - elapsed
    IN IF mkd > 0 /\ connTimeout < wt THEN connTimeout ELSE wt

\* time passes
Tick ==
    /\ tpc \in {"top", "read", "handler", "write", "flush"}
    /\ tnow < MaxTime
    /\ tnow' = tnow + 1
    /\ UNCHANGED <<cfg, loopVars, admitVars, poolVars, clientVars, restVars>>
    /\ UNCHANGED <<connTime, currentTime, readDeadline, writeDeadline, tpc,
                   terr, tbr, tclose, tlast>>

\* serveConn, top of the loop: ErrKeepaliveTimeout or SetReadDeadline.
SetReadDeadline ==
    /\ tpc = "top"
    /\ LET rt == cfg.ReadTimeout
           mkd == cfg.MaxKeepaliveDuration
           elapsed == currentTime - connTime
       IN
       IF rt > 0 \/ mkd > 0
       THEN IF mkd > 0 /\ mkd - elapsed <= 0
            THEN /\ terr' = "ErrKeepaliveTimeout"
                 /\ tpc' = "end"
                 /\ UNCHANGED readDeadline
            ELSE /\ readDeadline' = currentTime + ReadTimeoutFor(rt, mkd,
                                                                 elapsed)
                 /\ tpc' = "read"
                 /\ UNCHANGED terr
       ELSE /\ tpc' = "read"
            /\ UNCHANGED <<readDeadline, terr>>
    /\ tlast' = NoLast
    /\ UNCHANGED <<cfg, loopVars, admitVars, poolVars, clientVars, restVars>>
    /\ UNCHANGED <<tnow, connTime, currentTime, writeDeadline, tbr, tclose>>

\* serveConn: the request is read.  A request the reader already holds is
\* read without touching the connection; otherwise the read returns when
\* the peer's request has arrived, or the peer has closed, or at once with
\* a timeout when the read deadline has expired.
ReadRequest ==
    /\ tpc = "read"
    /\ \E arrived \in BOOLEAN, more \in BOOLEAN :
          /\ tbr => arrived
          /\ IF tbr \/ (arrived /\ ~Expired(readDeadline, tnow))
             THEN /\ tbr' = more
                  /\ tpc' = "handler"
                  /\ currentTime' = tnow
                  /\ UNCHANGED terr
             ELSE /\ arrived => Expired(readDeadline, tnow)
                  /\ ~more
                  /\ tbr' = FALSE
                  /\ tpc' = "end"
                  /\ terr' = IF Expired(readDeadline, tnow) THEN "timeout"
                             ELSE "nil"
                  /\ UNCHANGED currentTime
          /\ tlast' = [tlast EXCEPT
                         !.arrived = IF arrived THEN tnow ELSE -1,
                         !.read = tbr \/ (arrived /\
                                            ~Expired(readDeadline, tnow))]
    /\ UNCHANGED <<cfg, loopVars, admitVars, poolVars, clientVars, restVars>>
    /\ UNCHANGED <<tnow, connTime, readDeadline, writeDeadline, tclose>>

\* serveConn: ctx.Response.Reset(); s.Handler(ctx).  The handler may set
\* Connection: close.
TimedHandler ==
    /\ tpc = "handler"
    /\ tclose' \in BOOLEAN
    /\ tpc' = "write"
    /\ UNCHANGED <<cfg, loopVars, admitVars, poolVars, clientVars, restVars>>
    /\ UNCHANGED <<tnow, connTime, currentTime, readDeadline, writeDeadline,
                   terr, tbr, tlast>>

\* serveConn: the write deadline, with Connection: close and the grace
\* period once MaxKeepaliveDuration is exceeded.
SetWriteDeadline ==
    /\ tpc = "write"
    /\ LET wt == cfg.WriteTimeout
           mkd == cfg.MaxKeepaliveDuration
           elapsed == tnow - connTime
           over == mkd > 0 /\ mkd - elapsed <= 0
       IN
       /\ IF wt > 0 \/ mkd > 0
          THEN /\ tclose' = (tclose \/ over)
               /\ writeDeadline' = tnow + WriteTimeoutFor(wt, mkd, elapsed)
          ELSE UNCHANGED <<tclose, writeDeadline>>
       /\ tlast' = [tlast EXCEPT !.expired = over, !.setAt = tnow]
    /\ tpc' = "flush"
    /\ UNCHANGED <<cfg, loopVars, admitVars, poolVars, clientVars, restVars>>
    /\ UNCHANGED <<tnow, connTime, currentTime, readDeadline, terr, tbr>>

\* serveConn: writeResponse into the buffered writer, then the flush when
\* br == nil or the connection is closing; the flush fails at once with a
\* timeout when the write deadline has expired.
WriteResponse ==
    /\ tpc = "flush"
    /\ IF tbr /\ ~tclose
       THEN /\ tpc' = "top"
            /\ currentTime' = tnow
            /\ UNCHANGED <<terr, tlast>>
       ELSE IF Expired(writeDeadline, tnow)
            THEN /\ tpc' = "end"
                 /\ terr' = "timeout"
                 /\ UNCHANGED <<currentTime, tlast>>
            ELSE /\ tlast' = [tlast EXCEPT !.written = TRUE]
                 /\ tpc' = IF tclose THEN "end" ELSE "top"
                 /\ currentTime' = IF tclose THEN currentTime ELSE tnow
                 /\ UNCHANGED terr
    /\ UNCHANGED <<cfg, loopVars, admitVars, poolVars, clientVars, restVars>>
    /\ UNCHANGED <<tnow, connTime, readDeadline, writeDeadline, tbr, tclose>>

NextTimed ==
    \/ Tick
    \/ SetReadDeadline
    \/ ReadRequest
    \/ TimedHandler
    \/ SetWriteDeadline
    \/ WriteResponse

SpecTimed == InitTimed /\ [][NextTimed]_vars

\* The smaller of the limits a and b that are set (positive); b is set
\* when bSet.  At least one of them is set.
MinOfSet(a, b, bSet) ==
    IF a > 0 /\ bSet THEN (IF b < a THEN b ELSE a)
    ELSE IF a > 0 THEN a
    ELSE b

\* C15: when a read timeout or a keep-alive lifetime is configured, the
\* read deadline in force while a request is read is the loop's current
\* time plus the smaller of ReadTimeout and the remaining keep-alive
\* lifetime, a limit of zero not counting; and with only
\* MaxKeepaliveDuration set, a request that arrives before the lifetime
\* has expired is read and given to the handler.
C15_ReadDeadlineIsSmallestSetLimit ==
    LET rt == cfg.ReadTimeout
        mkd == cfg.MaxKeepaliveDuration
    IN
    /\ (tpc = "read" /\ (rt > 0 \/ mkd > 0)) =>
          readDeadline = currentTime +
              MinOfSet(rt, mkd - (currentTime - connTime), mkd > 0)
    /\ (rt = 0 /\ mkd > 0 /\ tlast.arrived >= 0
          /\ tlast.arrived - connTime < mkd) => tlast.read

\* C16: when the keep-alive lifetime has expired at the time the write
\* deadline is set, the response carries Connection: close and the write
\* deadline is 100 ms after that time, or WriteTimeout after it when
\* WriteTimeout is positive and smaller; a flush before that deadline
\* succeeds, and after the flush the loop has ended, so that the connection
\* is closed.
C16_GraceWriteAfterKeepaliveExpiry ==
    LET wt == cfg.WriteTimeout
        grace == IF wt > 0 /\ wt < Grace THEN wt ELSE Grace
    IN
    tlast.expired =>
        /\ tpc \in {"flush", "end"}
        /\ tclose
        /\ writeDeadline = tlast.setAt + grace
        /\ (tpc = "end" /\ tnow < tlast.setAt + grace) =>
              tlast.written /\ terr = "nil"

\* ------------------------------------------------------------------------
\* SpecWorkersPanic: ServerConcurrency of server.go with a request handler
\* that can panic
\* ------------------------------------------------------------------------
\* connWorker: s.Handler panics inside s.serveConn(c).  The panic unwinds
\* serveConn, whose c.Close() is an ordinary statement at its end, and is
\* recovered by connWorker's deferred function; connWorker returns and the
\* goroutine's closure decrements workersCount.
WorkerPanic(c) ==
    /\ conns[c].pc = "serving"
    /\ conns' = [conns EXCEPT ![c].handler = TRUE,
                              ![c].err = "panic",
                              ![c].pc = "done"]
    /\ workersCount' = Dec32(workersCount)
    /\ UNCHANGED <<otherVars, cfg, loopVars, perIPConnCounter, concurrency,
                   ch, idleWorkers, monitor, stopCh>>

NextWorkersPanic ==
    \/ NextWorkers
    \/ \E c \in OldConns : WorkerPanic(c)

SpecWorkersPanic == InitWorkers /\ [][NextWorkersPanic]_vars

\* C17: a connection whose handler panicked while a worker served it is no
\* longer served and has been closed; the panic took down neither the
\* accept loop nor the monitor, and the worker is no longer counted.
C17_PanicRecoveredAndConnClosed ==
    \A c \in OldConns :
        conns[c].err = "panic" =>
            /\ conns[c].pc = "done"
            /\ conns[c].closes = 1
            /\ monitor.pc # "stopped" \/ stopCh

\* ------------------------------------------------------------------------
\* SpecGetOnly: one connection served by serveConn, the peer sends GET and
\* other requests, the server may have GetOnly set
\* ------------------------------------------------------------------------
MethodAttrs == [close : {FALSE}, want : {"none", "hijack"}, get : BOOLEAN]

MethodStreams ==
    {Stream(f, FALSE) :
       f \in UNION {[1..k -> MethodAttrs] : k \in 0..(MaxRequests + 1)}}

InitGetOnly ==
    /\ cfg \in [useTimeout : {FALSE}, msg : {"timeout"},
                MaxRequestsPerConn : {0}, GetOnly : BOOLEAN]
    /\ sent \in MethodStreams
    /\ sock = sent
    /\ br = NoReader
    /\ bw = NoWriter
    /\ wire = <<>>
    /\ ctx = 0
    /\ allocated = 0
    /\ ctxPool = {}
    /\ ctxs = [i \in 1..NumCtx |-> FreshCtx]
    /\ tasks = [i \in 1..MaxRequests |-> NoTask]
    /\ pc = "start"
    /\ err = "nil"
    /\ connRequestNum = 0
    /\ outcome = [i \in Iterations |-> "none"]
    /\ handled = <<>>
    /\ closeCount = 0
    /\ hj = [st |-> "none", r |-> <<>>, read |-> <<>>, how |-> "none"]
    /\ NoAdmission
    /\ NoOther
    /\ NoPool

SpecGetOnly == InitGetOnly /\ [][NextServe]_vars

\* C18: with GetOnly set, every request the handler was called for is a
\* GET request.
C18_GetOnlyKeepsOthersFromHandler ==
    cfg.GetOnly => \A i \in 1..Len(handled) : SentRequest(handled[i]).get

\* ------------------------------------------------------------------------
\* SpecClient: one HostClient used by concurrent Do calls, with its idle
\* connection cleaner
\* ------------------------------------------------------------------------
InitClient ==
    /\ cfg \in [MaxConns : 0..2]
    /\ NoLoop
    /\ NoAdmission
    /\ NoPool
    /\ NoClock
    /\ NewHostClient
    /\ NoRest

\* acquireConn: maxConns
MaxConnsOf(n) == IF n <= 0 THEN DefaultMaxConnsPerHost ELSE n

\* (mutant: the connection taken from the stack stays on it)
PopConns_Keep(s) == s

\* acquireConn: c.conns = c.conns[:n] after n--
PopConns(s) == SubSeq(s, 1, Len(s) - 1)

\* acquireConn: if c.connsCount < maxConns
MayCreate(count, maxConns) == count < maxConns

\* Number of connections dialed so far.
Dialed == Cardinality({i \in NetConns : netConns[i] # "none"})

\* HostClient.Do up to the end of acquireConn's locked section: the last
\* idle connection is popped, or a new one is counted (and the cleaner is
\* started when it is the only one), or ErrNoFreeConns is returned.
AcquireConn(d) ==
    /\ does[d].pc = "idle"
    /\ IF Len(idleConns) = 0
       THEN IF MayCreate(connsCount, MaxConnsOf(cfg.MaxConns))
            THEN /\ Dialed + Cardinality({e \in Calls : does[e].pc = "dial"})
                       < MaxDials
                 /\ connsCount = 0 => cleaners < MaxCleaners
                 /\ connsCount' = connsCount + 1
                 /\ cleaners' = cleaners + (IF connsCount + 1 = 1 THEN 1
                                            ELSE 0)
                 /\ does' = [does EXCEPT ![d] = [NoCall EXCEPT
                                !.pc = "dial",
                                !.panicked = does[d].panicked]]
                 /\ UNCHANGED idleConns
            ELSE /\ does' = [does EXCEPT ![d] = [NoCall EXCEPT
                                !.err = "ErrNoFreeConns",
                                !.panicked = does[d].panicked]]
                 /\ UNCHANGED <<connsCount, cleaners, idleConns>>
       ELSE /\ does' = [does EXCEPT ![d] = [NoCall EXCEPT
                           !.pc = "use",
                           !.cc = idleConns[Len(idleConns)],
                           !.how = "popped",
                           !.panicked = does[d].panicked]]
            /\ idleConns' = PopConns(idleConns)
            /\ UNCHANGED <<connsCount, cleaners>>
    /\ UNCHANGED <<cfg, loopVars, admitVars, poolVars, clockVars, restVars>>
    /\ UNCHANGED <<clientConnPool, ccs, netConns>>

\* acquireConn, after the locked section: dial(c.Addr) fails and
\* decConnsCount is called, or it succeeds and acquireClientConn(conn)
\* returns a new clientConn holding conn, or a clientConn from
\* clientConnPool as it is.
DialConn(d) ==
    /\ does[d].pc = "dial"
    /\ \/ /\ connsCount' = connsCount - 1
          /\ does' = [does EXCEPT ![d].pc = "idle", ![d].err = "dial"]
          /\ UNCHANGED <<clientConnPool, ccs, netConns>>
       \/ LET conn == Dialed + 1
              fresh == CHOOSE i \in ClientConns :
                          /\ ~ccs[i].made
                          /\ \A k \in 1..(i - 1) : ccs[k].made
          IN
          /\ netConns' = [netConns EXCEPT ![conn] = "open"]
          /\ \/ /\ ccs' = [ccs EXCEPT ![fresh] = [made |-> TRUE,
                                                  c |-> conn,
                                                  last |-> "none"]]
                /\ does' = [does EXCEPT ![d].pc = "use", ![d].cc = fresh,
                                        ![d].how = "new"]
                /\ UNCHANGED clientConnPool
             \/ \E v \in clientConnPool :
                   /\ clientConnPool' = clientConnPool \ {v}
                   /\ does' = [does EXCEPT ![d].pc = "use", ![d].cc = v,
                                           ![d].how = "recycled"]
                   /\ ccs' = [ccs EXCEPT ![v].last = "none"]
          /\ UNCHANGED connsCount
    /\ UNCHANGED <<cfg, loopVars, admitVars, poolVars, clockVars, restVars>>
    /\ UNCHANGED <<idleConns, cleaners>>

\* How an exchange on a connection can end: req.Write fails, bw.Flush
\* fails, resp.Read fails, the request or the response carries
\* Connection: close, or none of these.
Exchanges == {"write", "flush", "read", "reqClose", "respClose", "ok"}

\* HostClient.Do: releaseConn is reached when no step returned an error and
\* neither req.Header.ConnectionClose nor resp.Header.ConnectionClose is set.
Reusable(x) == x = "ok"

\* HostClient.Do from "conn := cc.c" on: the request is written to and the
\* response read from conn.  With a nil conn the write panics and Do is
\* left at once; otherwise Do ends in releaseConn, or after an error or
\* with Connection: close in closeConn, whose first step is decConnsCount.
DoRequest(d) ==
    /\ does[d].pc = "use"
    /\ IF ccs[does[d].cc].c = 0
       THEN /\ does' = [does EXCEPT ![d] = [NoCall EXCEPT
                           !.err = "panic", !.panicked = TRUE]]
            /\ UNCHANGED <<connsCount, idleConns, ccs>>
       ELSE \E x \in Exchanges :
               /\ ccs' = [ccs EXCEPT ![does[d].cc].last =
                                        IF Reusable(x) THEN "ok" ELSE "bad"]
               /\ IF Reusable(x)
                  THEN /\ idleConns' = Append(idleConns, does[d].cc)
                       /\ does' = [does EXCEPT ![d].pc = "idle",
                                               ![d].cc = 0]
                       /\ UNCHANGED connsCount
                  ELSE /\ connsCount' = connsCount - 1
                       /\ does' = [does EXCEPT
                                     ![d].pc = "closing",
                                     ![d].err = IF x \in {"write", "flush",
                                                          "read"}
                                                THEN "exchange" ELSE "nil"]
                       /\ UNCHANGED idleConns
    /\ UNCHANGED <<cfg, loopVars, admitVars, poolVars, clockVars, restVars>>
    /\ UNCHANGED <<clientConnPool, netConns, cleaners>>

\* closeConn after decConnsCount: cc.c.Close(); releaseClientConn(cc),
\* which sets cc.c = nil and puts cc into clientConnPool.
CloseConn(d) ==
    /\ does[d].pc = "closing"
    /\ LET cc == does[d].cc IN
       /\ netConns' = [netConns EXCEPT ![ccs[cc].c] = "closed"]
       /\ ccs' = [ccs EXCEPT ![cc].c = 0]
       /\ clientConnPool' = clientConnPool \cup {cc}
    /\ does' = [does EXCEPT ![d].pc = "idle", ![d].cc = 0]
    /\ UNCHANGED <<cfg, loopVars, admitVars, poolVars, clockVars, restVars>>
    /\ UNCHANGED <<connsCount, idleConns, cleaners>>

\* One round of the cleaner goroutine under connsLock: the connections at
\* the bottom of the stack that have been idle for more than ten seconds
\* (the k oldest) are closed and released; the cleaner ends when the stack
\* is empty afterwards.
CleanerSweep ==
    /\ cleaners > 0
    /\ \E k \in 0..Len(idleConns) :
          LET swept == {idleConns[i] : i \in 1..k} IN
          /\ connsCount' = connsCount - k
          /\ netConns' = [n \in NetConns |->
                            IF \E cc \in swept : ccs[cc].c = n
                            THEN "closed" ELSE netConns[n]]
          /\ ccs' = [cc \in ClientConns |->
                       IF cc \in swept THEN [ccs[cc] EXCEPT !.c = 0]
                       ELSE ccs[cc]]
          /\ clientConnPool' = clientConnPool \cup swept
          /\ idleConns' = SubSeqFrom(idleConns, k + 1)
          /\ cleaners' = IF k = Len(idleConns) THEN cleaners - 1
                         ELSE cleaners
    /\ UNCHANGED <<cfg, loopVars, admitVars, poolVars, clockVars, restVars>>
    /\ UNCHANGED does

NextClient ==
    \/ \E d \in Calls : AcquireConn(d)
    \/ \E d \in Calls : DialConn(d)
    \/ \E d \in Calls : DoRequest(d)
    \/ \E d \in Calls : CloseConn(d)
    \/ CleanerSweep

SpecClient == InitClient /\ [][NextClient]_vars

\* The Do calls whose connection is being dialed, and those that hold a
\* connection between acquireConn and releaseConn or closeConn.
Dialing == {d \in Calls : does[d].pc = "dial"}
InUse == {d \in Calls : does[d].pc = "use"}

\* C19: connsCount is always the number of connections being dialed, in
\* use by a Do call or idle in the stack; it is never above MaxConns (10
\* when MaxConns is not set) and never negative.
C19_ConnsCountMatchesConnections ==
    /\ connsCount = Cardinality(Dialing) + Cardinality(InUse)
                      + Len(idleConns)
    /\ connsCount <= MaxConnsOf(cfg.MaxConns)
    /\ connsCount >= 0

\* The Do calls that hold clientConn cc, up to the end of closeConn.
HoldersOf(cc) ==
    {d \in Calls : does[d].pc \in {"use", "closing"} /\ does[d].cc = cc}

\* C20: a clientConn is held by at most one Do call, and while a Do call
\* holds it, it is neither on the idle stack nor in clientConnPool, no
\* other clientConn has its net.Conn, and that net.Conn has not been
\* closed; no clientConn is on the idle stack twice.
C20_PooledConnHasOneOwner ==
    /\ \A cc \in ClientConns :
          /\ Cardinality(HoldersOf(cc)) <= 1
          /\ HoldersOf(cc) # {} =>
                /\ \A i \in 1..Len(idleConns) : idleConns[i] # cc
                /\ cc \notin clientConnPool
                /\ ccs[cc].c # 0 =>
                      /\ netConns[ccs[cc].c] = "open"
                      /\ \A other \in ClientConns \ {cc} :
                            ccs[other].c # ccs[cc].c
    /\ \A i, k \in 1..Len(idleConns) :
          idleConns[i] = idleConns[k] => i = k

\* Two Do calls hold connections at the same time, one of them taken from
\* the idle stack, after the cleaner or closeConn has recycled another.
C20_Witness ==
    /\ does[1].pc = "use"
    /\ does[1].how = "popped"
    /\ does[2].pc = "use"
    /\ does[1].cc # does[2].cc
    /\ \E n \in NetConns : netConns[n] = "closed"

\* ------------------------------------------------------------------------
\* SpecClientLive: SpecClient where a running cleaner goroutine goes on
\* with its rounds, and a connection left on the idle stack becomes older
\* than ten seconds: a cleaner that keeps finding idle connections
\* eventually closes the oldest of them.
\* ------------------------------------------------------------------------
SpecClientLive ==
    SpecClient /\ WF_vars(CleanerSweep /\ Len(idleConns') < Len(idleConns))

\* clientConn cc is on the idle stack.
OnIdleStack(cc) == \E i \in 1..Len(idleConns) : idleConns[i] = cc

\* C21: a connection on the idle stack does not stay there for ever: it is
\* taken by a Do call or, once idle for more than ten seconds, closed and
\* removed by the cleaner.
C21_IdleConnEventuallySwept ==
    \A cc \in ClientConns : [](OnIdleStack(cc) => <>(~OnIdleStack(cc)))

\* The net.Conn n belongs to a clientConn that a Do call holds or that is
\* on the idle stack.
Owned(n) ==
    \E cc \in ClientConns :
        /\ ccs[cc].c = n
        /\ HoldersOf(cc) # {} \/ OnIdleStack(cc)

\* C22: a connection is on the idle stack only after an exchange that was
\* complete, without error and without Connection: close on either side,
\* and it is open; a Do call that took a connection holds one whose last
\* exchange, if any, ended that way; and every other connection that was
\* dialed is closed once the Do call that had it is over, its slot
\* released: an open connection is always one a Do call holds or an idle
\* one, and connsCount counts exactly the connections dialed, held for an
\* exchange and idle.
C22_OnlyCleanConnsAreReused ==
    /\ \A cc \in ClientConns :
          /\ OnIdleStack(cc) =>
                /\ ccs[cc].last = "ok"
                /\ ccs[cc].c # 0
                /\ netConns[ccs[cc].c] = "open"
          /\ (\E d \in InUse : does[d].cc = cc) =>
                ccs[cc].last \in {"ok", "none"}
    /\ \A n \in NetConns : netConns[n] = "open" => Owned(n)
    /\ connsCount = Cardinality(Dialing) + Cardinality(InUse)
                      + Len(idleConns)

\* ------------------------------------------------------------------------
\* SpecHelper: one client used through Get and Post, one call at a time.
\* Its Dial function hands out connections of the kinds the tests use.
\* ------------------------------------------------------------------------
\* readErrorConn fails every Read; singleReadConn serves one response and
\* then returns io.EOF; a keepAliveConn serves a response to every request;
\* a closingConn answers with Connection: close; a writeErrorConn fails
\* every Write.
ConnKinds == {"readErrorConn", "singleReadConn", "keepAliveConn",
              "closingConn", "writeErrorConn"}

\* What Dial can return: a connection that answers with some status code,
\* or an error.
DialResults ==
    [kind : ConnKinds, status : {StatusOK, 345}, reads : {0}]
        \cup {[kind |-> "dialError", status |-> 0, reads |-> 0]}

InitHelper ==
    /\ cfg \in [MaxConns : {0}]
    /\ NoLoop
    /\ NoAdmission
    /\ NoPool
    /\ NoClock
    /\ NoClient
    /\ NoRest

\* HostClient.Do, called once: acquireConn takes the idle connection or
\* dials (k is what Dial returns, recycled tells whether acquireClientConn
\* found a clientConn in clientConnPool); then the request is written and
\* flushed and the response is read.  Any error and a response with
\* Connection: close end in closeConn, every other exchange in releaseConn.  The method of the request plays no
\* part.
Do(stack, pool, k, recycled) ==
    LET pooled == stack # <<>>
        conn == IF pooled THEN stack[Len(stack)] ELSE k
        rest == IF pooled THEN SubSeq(stack, 1, Len(stack) - 1) ELSE stack
        dials == IF pooled THEN 0 ELSE 1
        res(failed, cs, p) ==
            [pooled |-> pooled, dials |-> dials, failed |-> failed,
             err |-> failed, conns |-> cs, pool |-> p,
             status |-> IF failed = "nil" THEN conn.status ELSE 0]
    IN  IF ~pooled /\ k.kind = "dialError"
            THEN res("dial", stack, pool)
        ELSE IF ~pooled /\ recycled
            THEN res("panic", stack, FALSE)
        ELSE IF conn.kind = "writeErrorConn"
            THEN res("write", rest, TRUE)
        ELSE IF \/ conn.kind = "readErrorConn"
                \/ conn.kind = "singleReadConn" /\ conn.reads > 0
            THEN res("read", rest, TRUE)
        ELSE IF conn.kind = "closingConn"
            THEN res("nil", rest, TRUE)
        ELSE res("nil", Append(rest, [conn EXCEPT !.reads = 1]), pool)

\* doRequest: one call of c.Do; its error, or the status code of the
\* response, is what the caller gets.
doRequest(method) ==
    \E k \in DialResults, recycled \in BOOLEAN :
        LET r == Do(hostConns, hostPool, k, recycled)
        IN  /\ recycled => hostPool
            /\ dialsCount + r.dials <= MaxDials
            /\ dialsCount' = dialsCount + r.dials
            /\ hostConns' = r.conns
            /\ hostPool' = r.pool
            /\ got' = [method |-> method, pooled |-> r.pooled,
                       dials |-> r.dials, failed |-> r.failed,
                       err |-> r.err, status |-> r.status]
            /\ UNCHANGED outsideHelper

clientGetURL == doRequest("GET")

clientPostURL == doRequest("POST")

NextHelper == clientGetURL \/ clientPostURL

SpecHelper == InitHelper /\ [][NextHelper]_vars

\* C23: a Get call whose connection fails while the response is read has
\* made one more dial, for the retry, than the first attempt needed (two
\* dials when the first attempt dialed); a Post call with the same failure
\* has made no further dial and returns the error.
C23_IdempotentRequestRetriedOnce ==
    /\ got.method = "GET" /\ got.failed = "read" =>
          got.dials = (IF got.pooled THEN 1 ELSE 2)
    /\ got.method = "POST" /\ got.failed = "read" =>
          /\ got.dials = (IF got.pooled THEN 0 ELSE 1)
          /\ got.err = "read"

\* ------------------------------------------------------------------------
\* SpecDial: Dial calls for one host, one at a time, with the cache of
\* resolved addresses and the goroutine that cleans it.
\* ------------------------------------------------------------------------
\* tcpAddrsCacheDuration, in minutes.
tcpAddrsCacheDuration == 1

InitDial ==
    /\ cfg \in [MaxConns : {0}]
    /\ NoLoop
    /\ NoAdmission
    /\ NoPool
    /\ NoClock
    /\ NoClient
    /\ NoRest

\* The index getTCPAddr computes for an entry with more than one address:
\* the n of "n := atomic.AddUint32(&e.addrsIdx, 1)" hides the n that is
\* len(e.addrs), so that n%uint32(n) divides the counter by itself.
AddrIndex(addrsIdx, len) ==
    LET n == addrsIdx
    IN  n % n

\* getTCPAddr: a missing entry, or one older than tcpAddrsCacheDuration, is
\* resolved again (ok tells whether resolveTCPAddrs succeeds, len how many
\* addresses it returns); then the entry's next address is picked.
getTCPAddr(ok, len) ==
    LET e0 == tcpAddrsMap
        stale == /\ e0.addrs # 0
                 /\ ~e0.pending
                 /\ dnow - e0.resolveTime > tcpAddrsCacheDuration
        resolve == e0.addrs = 0 \/ stale
        e == IF resolve
                THEN [addrs |-> len, addrsIdx |-> 0, resolveTime |-> dnow,
                      pending |-> FALSE]
                ELSE e0
        from == IF resolve THEN <<>> ELSE dialed
    IN  /\ Len(from) < MaxDials
        /\ IF resolve /\ ~ok
              THEN UNCHANGED <<tcpAddrsMap, dialed>>
              ELSE IF e.addrs > 1
                      THEN /\ tcpAddrsMap' =
                                [e EXCEPT !.addrsIdx = e.addrsIdx + 1]
                           /\ dialed' =
                                Append(from,
                                       AddrIndex(e.addrsIdx + 1, e.addrs))
                      ELSE /\ tcpAddrsMap' = e
                           /\ dialed' = Append(from, 0)
        /\ UNCHANGED <<outsideDial, dnow>>

\* tcpAddrsClean: an entry resolved more than twice the cache duration ago
\* is deleted.
tcpAddrsClean ==
    /\ tcpAddrsMap.addrs # 0
    /\ dnow - tcpAddrsMap.resolveTime > 2 * tcpAddrsCacheDuration
    /\ tcpAddrsMap' = NoEntry
    /\ dialed' = <<>>
    /\ UNCHANGED <<outsideDial, dnow>>

DialTick ==
    /\ dnow < MaxTime
    /\ dnow' = dnow + 1
    /\ UNCHANGED <<outsideDial, tcpAddrsMap, dialed>>

NextDial ==
    \/ \E ok \in BOOLEAN, len \in 1..MaxAddrs : getTCPAddr(ok, len)
    \/ tcpAddrsClean
    \/ DialTick

SpecDial == InitDial /\ [][NextDial]_vars

\* C24: when the cached resolution of the host has n > 1 addresses, every
\* n consecutive dials made from it went to n distinct addresses.
C24_DialsRotateRoundRobin ==
    LET n == tcpAddrsMap.addrs
    IN  n > 1 =>
           \A i \in 1..Len(dialed) :
              i + n - 1 <= Len(dialed) =>
                 Cardinality({dialed[j] : j \in i..(i + n - 1)}) = n

\* ------------------------------------------------------------------------
\* SpecMaps: concurrent Client.Do calls, the map of HostClients per scheme
\* and the cleaner goroutine of each map.
\* ------------------------------------------------------------------------
InitMaps ==
    /\ cfg \in [MaxConns : {0}]
    /\ NoLoop
    /\ NoAdmission
    /\ NoPool
    /\ NoClock
    /\ NoClient
    /\ NoRest

HostsIn(s) == {h \in Hosts : hostMaps[s][h] # 0}

\* Client.Do up to c.mLock.Unlock(): the HostClient of the host is looked
\* up in the map of the scheme and created when missing; the cleaner
\* goroutine is started when the new HostClient is the only one in the map.
ClientDo(d, s, h) ==
    /\ callers[d].pc = "idle"
    /\ IF hostMaps[s][h] # 0
          THEN /\ callers' = [callers EXCEPT ![d] =
                                 [pc |-> "found", hc |-> hostMaps[s][h]]]
               /\ UNCHANGED <<hostMaps, hostClients, mapCleaner>>
          ELSE \E i \in HostClientIds :
                  /\ ~hostClients[i].made
                  /\ \A j \in 1..(i - 1) : hostClients[j].made
                  /\ hostClients' = [hostClients EXCEPT ![i] =
                                        [made |-> TRUE, lastUseTime |-> 0,
                                         born |-> cnow]]
                  /\ hostMaps' = [hostMaps EXCEPT ![s][h] = i]
                  /\ mapCleaner' = IF HostsIn(s) = {}
                                      THEN [mapCleaner EXCEPT ![s] = TRUE]
                                      ELSE mapCleaner
                  /\ callers' = [callers EXCEPT ![d] =
                                    [pc |-> "found", hc |-> i]]
    /\ UNCHANGED <<outsideMaps, cnow>>

\* hc.Do: the first statement of HostClient.Do stores the time of use.
HostClientDo(d) ==
    /\ callers[d].pc = "found"
    /\ hostClients' = [hostClients EXCEPT
                          ![callers[d].hc].lastUseTime = cnow]
    /\ callers' = [callers EXCEPT ![d].pc = "request"]
    /\ UNCHANGED <<outsideMaps, hostMaps, mapCleaner, cnow>>

\* hc.Do returns.
ClientDoReturn(d) ==
    /\ callers[d].pc = "request"
    /\ callers' = [callers EXCEPT ![d] = [pc |-> "idle", hc |-> 0]]
    /\ UNCHANGED <<outsideMaps, hostMaps, hostClients, mapCleaner, cnow>>

\* One round of the cleaner goroutine of the map of scheme s: every
\* HostClient whose LastUseTime lies more than a minute back is deleted;
\* the goroutine ends when the map is empty.
MapCleanerSweep(s) ==
    /\ mapCleaner[s]
    /\ LET expired(h) ==
               /\ hostMaps[s][h] # 0
               /\ cnow - hostClients[hostMaps[s][h]].lastUseTime > Minute
       IN  /\ hostMaps' = [hostMaps EXCEPT ![s] =
                             [h \in Hosts |-> IF expired(h) THEN 0
                                              ELSE hostMaps[s][h]]]
           /\ mapCleaner' = [mapCleaner EXCEPT ![s] =
                                \E h \in HostsIn(s) : ~expired(h)]
    /\ UNCHANGED <<outsideMaps, hostClients, callers, cnow>>

MapTick ==
    /\ cnow < 2 * Minute + MaxTime
    /\ cnow' = cnow + 1
    /\ UNCHANGED <<outsideMaps, hostMaps, hostClients, mapCleaner, callers>>

NextMaps ==
    \/ \E d \in Calls, s \in Schemes, h \in Hosts : ClientDo(d, s, h)
    \/ \E d \in Calls : HostClientDo(d)
    \/ \E d \in Calls : ClientDoReturn(d)
    \/ \E s \in Schemes : MapCleanerSweep(s)
    \/ MapTick

SpecMaps == InitMaps /\ [][NextMaps]_vars

\* The time the HostClient i was created or last used, whichever is later.
LastTouched(i) ==
    IF hostClients[i].lastUseTime > hostClients[i].born
        THEN hostClients[i].lastUseTime
        ELSE hostClients[i].born

\* C25: a HostClient leaves its map only when it was neither created nor
\* used within the last minute, in the http map and in the https map.
C25_OnlyIdleHostClientsRemoved ==
    [][\A s \in Schemes, h \in Hosts :
          hostMaps[s][h] # 0 /\ hostMaps'[s][h] = 0 =>
             cnow - LastTouched(hostMaps[s][h]) > Minute]_vars

\* ------------------------------------------------------------------------
\* SpecHeader: a RequestHeader and a ResponseHeader that have read the same
\* header block of an HTTP/1.1 message and parse it on demand.  A header
\* line is its key, the number of spaces after the colon and its value.
\* ------------------------------------------------------------------------
HeaderKeys == {"Connection", "connection", "Content-Length", "Host"}
HeaderValues == {"close", "keep-alive", "Upgrade", "7", "Connection: close"}
HeaderLines == [key : HeaderKeys, gap : {0, 1}, value : HeaderValues]

RECURSIVE SeqsUpTo(_, _)
SeqsUpTo(S, n) ==
    IF n = 0 THEN {<<>>}
    ELSE LET shorter == SeqsUpTo(S, n - 1)
         IN  shorter \cup {Append(q, x) : q \in shorter, x \in S}

HeaderBlocks == SeqsUpTo(HeaderLines, MaxLines)

InitHeader ==
    /\ cfg \in [MaxConns : {0}]
    /\ NoLoop
    /\ NoAdmission
    /\ NoPool
    /\ NoClock
    /\ NoClient
    /\ NoHelper
    /\ NoDial
    /\ NoMaps
    /\ NoRead
    /\ NoMessages
    /\ NoLate
    /\ rawHeaders \in HeaderBlocks
    /\ reqHeader = [rawHeadersParsed |-> FALSE, connectionClose |-> FALSE,
                    asked |-> "none"]
    /\ respHeader = [rawHeadersParsed |-> FALSE, connectionClose |-> FALSE]

\* normalizeHeaderKey: the first letter and every letter after a hyphen
\* becomes upper case, the others lower case.
normalizeHeaderKey(key) == IF key = "connection" THEN "Connection" ELSE key

\* parseContentLength: the number, or -1 for an error.
parseContentLength(value) == IF value = "7" THEN 7 ELSE -1

\* hasRawHeader(buf, "Connection: close"): bytes.Index finds the first
\* place where the literal occurs; the answer is whether that place is the
\* start of a line and is followed by the end of the line.
hasRawHeader(buf) ==
    LET occurs(l) == \/ l.key = "Connection" /\ l.gap = 1 /\ l.value = "close"
                     \/ l.value = "Connection: close"
        found == {i \in 1..Len(buf) : occurs(buf[i])}
        first == CHOOSE i \in found : \A j \in found : i <= j
    IN  /\ found # {}
        /\ buf[first].value = "close"

\* RequestHeader.ConnectionClose, called before the block is parsed.
RequestConnectionClose ==
    /\ ~reqHeader.rawHeadersParsed
    /\ reqHeader.asked = "none"
    /\ LET answer == reqHeader.connectionClose \/ hasRawHeader(rawHeaders)
       IN  reqHeader' = [reqHeader EXCEPT
                            !.connectionClose = answer,
                            !.asked = IF answer THEN "true" ELSE "false"]
    /\ UNCHANGED <<outsideHeader, rawHeaders, respHeader>>

\* RequestHeader.parseRawHeaders: the case of the Connection key compares
\* the key once more, not the value.
RequestParseRawHeaders ==
    /\ ~reqHeader.rawHeadersParsed
    /\ reqHeader' =
          [reqHeader EXCEPT
              !.rawHeadersParsed = TRUE,
              !.connectionClose =
                  \/ reqHeader.connectionClose
                  \/ \E i \in 1..Len(rawHeaders) :
                        /\ normalizeHeaderKey(rawHeaders[i].key) = "Connection"
                        /\ normalizeHeaderKey(rawHeaders[i].key) = "Connection"]
    /\ UNCHANGED <<outsideHeader, rawHeaders, respHeader>>

\* The contentLength a ResponseHeader ends with when it has scanned the
\* lines from i on: -2 stands for identity.
RECURSIVE ScanContentLength(_, _, _)
ScanContentLength(buf, i, contentLength) ==
    IF i > Len(buf) THEN contentLength
    ELSE IF normalizeHeaderKey(buf[i].key) = "Content-Length"
        THEN ScanContentLength(buf, i + 1,
                 IF parseContentLength(buf[i].value) = -1 THEN -2
                 ELSE parseContentLength(buf[i].value))
    ELSE ScanContentLength(buf, i + 1, contentLength)

\* ResponseHeader.parseRawHeaders: nothing is done for an empty block; a
\* Connection line with the value close sets the flag, and so does a block
\* that leaves contentLength at -2.
ResponseParseRawHeaders ==
    /\ ~respHeader.rawHeadersParsed
    /\ respHeader' =
          [respHeader EXCEPT
              !.rawHeadersParsed = TRUE,
              !.connectionClose =
                  /\ Len(rawHeaders) # 0
                  /\ \/ \E i \in 1..Len(rawHeaders) :
                           /\ normalizeHeaderKey(rawHeaders[i].key)
                                 = "Connection"
                           /\ rawHeaders[i].value = "close"
                     \/ ScanContentLength(rawHeaders, 1, -2) = -2]
    /\ UNCHANGED <<outsideHeader, rawHeaders, reqHeader>>

NextHeader ==
    \/ RequestConnectionClose
    \/ RequestParseRawHeaders
    \/ ResponseParseRawHeaders

SpecHeader == InitHeader /\ [][NextHeader]_vars

\* The block has a Connection header whose value is exactly close.
HasConnectionClose ==
    \E i \in 1..Len(rawHeaders) :
        /\ normalizeHeaderKey(rawHeaders[i].key) = "Connection"
        /\ rawHeaders[i].value = "close"

\* C26: once a header has parsed its block, its close flag is set exactly
\* when the block has a Connection header with the value close, in a
\* request header and in a response header.
C26_CloseFlagIffConnectionClose ==
    /\ reqHeader.rawHeadersParsed =>
          (reqHeader.connectionClose <=> HasConnectionClose)
    /\ respHeader.rawHeadersParsed =>
          (respHeader.connectionClose <=> HasConnectionClose)

\* C27: what RequestHeader.ConnectionClose answered before the block was
\* parsed is what the header holds after the block is parsed.
C27_FastPathAgreesWithFullParse ==
    reqHeader.asked # "none" /\ reqHeader.rawHeadersParsed =>
        (reqHeader.asked = "true" <=> reqHeader.connectionClose)

\* ------------------------------------------------------------------------
\* SpecRead: RequestHeader.Read and ResponseHeader.Read (the two are the
\* same code) on a bufio.Reader over a stream that hands out its bytes in
\* fragments of any size.  A byte is a carriage return, a line feed or
\* some other character.
\* ------------------------------------------------------------------------
Bytes == {"x", "CR", "LF"}
ByteStreams == SeqsUpTo(Bytes, MaxLen)

\* bytes.IndexByte(b[from:], '\n') as a position in b, 0 when there is none.
IndexLF(b, from) ==
    LET at == {i \in from..Len(b) : b[i] = "LF"}
    IN  IF at = {} THEN 0 ELSE CHOOSE i \in at : \A j \in at : i <= j

\* nextLine: the line from position from to the line feed at position lf,
\* without a trailing carriage return.
nextLine(b, from, lf) ==
    IF lf > from /\ b[lf - 1] = "CR" THEN SubSeq(b, from, lf - 2)
    ELSE SubSeq(b, from, lf - 1)

\* parseFirstLine: empty lines are skipped; the first line that is not
\* empty is the first line of the message, which must be well-formed (here:
\* hold no carriage return).  m is the number of bytes up to its end.
RECURSIVE parseFirstLine(_, _)
parseFirstLine(b, from) ==
    LET lf == IndexLF(b, from)
        line == nextLine(b, from, lf)
    IN  IF lf = 0 THEN [err |-> "errNeedMore", m |-> 0, first |-> <<>>]
        ELSE IF line = <<>> THEN parseFirstLine(b, lf + 1)
        ELSE IF \E i \in 1..Len(line) : line[i] = "CR"
            THEN [err |-> "malformed", m |-> 0, first |-> <<>>]
        ELSE [err |-> "nil", m |-> lf, first |-> line]

\* readRawHeaders on b[from:]: the header lines up to and with the first
\* empty line; end is the position of the last byte taken.
RECURSIVE readRawLines(_, _)
readRawLines(b, from) ==
    LET lf == IndexLF(b, from)
        m == lf - from + 1
    IN  IF lf = 0 THEN 0
        ELSE IF m = 1 \/ (m = 2 /\ b[from] = "CR") THEN lf
        ELSE readRawLines(b, lf + 1)

readRawHeaders(b, from) ==
    LET lf == IndexLF(b, from)
        n == lf - from
        end == IF n = 0 \/ (n = 1 /\ b[from] = "CR") THEN lf
               ELSE readRawLines(b, lf + 1)
    IN  IF lf = 0 \/ end = 0
            THEN [err |-> "errNeedMore", end |-> 0, raw |-> <<>>]
        ELSE IF end = lf THEN [err |-> "nil", end |-> end, raw |-> <<>>]
        ELSE [err |-> "nil", end |-> end, raw |-> SubSeq(b, from, end)]

\* parse: the first line, then the raw headers; len is the number of bytes
\* of the header block.
parse(b) ==
    LET f == parseFirstLine(b, 1)
        r == readRawHeaders(b, f.m + 1)
    IN  IF f.err # "nil"
            THEN [err |-> f.err, len |-> 0, first |-> <<>>, raw |-> <<>>]
        ELSE IF r.err # "nil"
            THEN [err |-> r.err, len |-> 0, first |-> <<>>, raw |-> <<>>]
        ELSE [err |-> "nil", len |-> r.end, first |-> f.first, raw |-> r.raw]

InitRead ==
    /\ cfg \in [MaxConns : {0}]
    /\ NoLoop
    /\ NoAdmission
    /\ NoPool
    /\ NoClock
    /\ NoClient
    /\ NoHelper
    /\ NoDial
    /\ NoMaps
    /\ NoHeaders
    /\ NoMessages
    /\ NoLate
    /\ \E whole \in ByteStreams : rd = NewRead(whole)

\* (mutant: the next Peek asks for no more than is buffered)
NextPeek_Same(buffered) == buffered

\* The size of the Peek that follows a tryRead that needs more data.
NextPeek(buffered) == buffered + 1

\* tryRead: r.Peek(n) fills the buffer from the stream, fragment by
\* fragment, until n bytes are buffered, the buffer is full or the stream
\* has ended (cnt is the number of bytes that arrive meanwhile); then all
\* the buffered bytes are parsed.  On success the header block is
\* discarded from the reader and Read returns; on errNeedMore without a
\* Peek error Read tries again with a larger Peek; everything else makes
\* Read return the error.
tryRead(cnt) ==
    LET buffered == Len(rd.buf) + cnt
        b == rd.buf \o SubSeq(rd.under, 1, cnt)
        rest == SubSeq(rd.under, cnt + 1, Len(rd.under))
        isEOF == buffered < rd.n
        h == parse(b)
    IN  /\ rd.pc = "read"
        /\ cnt \in 0..Len(rd.under)
        /\ buffered <= ReadBufSize
        /\ IF Len(rd.buf) >= rd.n THEN cnt = 0
           ELSE \/ buffered >= rd.n /\ cnt > 0
                \/ buffered < rd.n /\ (rest = <<>> \/ buffered = ReadBufSize)
        /\ rd' =
             IF b = <<>>
                THEN [rd EXCEPT !.pc = "EOF", !.under = rest]
             ELSE IF h.err = "nil"
                THEN [rd EXCEPT !.pc = "done", !.under = rest, !.h = h,
                                !.buf = SubSeq(b, h.len + 1, Len(b))]
             ELSE IF h.err = "errNeedMore" /\ ~isEOF
                THEN [rd EXCEPT !.under = rest, !.buf = b,
                                !.n = NextPeek(buffered)]
             ELSE [rd EXCEPT !.pc = "error", !.under = rest, !.buf = b]
        /\ UNCHANGED outsideRead

NextRead == \E cnt \in 0..MaxLen : tryRead(cnt)

SpecRead == InitRead /\ [][NextRead]_vars

\* A Read that has begun is not left half-way: tryRead runs until it returns.
SpecReadLive == SpecRead /\ WF_vars(NextRead)

\* The stream begins with a complete header block that fits the buffer.
FitsBuffer ==
    /\ parse(rd.whole).err = "nil"
    /\ parse(rd.whole).len <= ReadBufSize

\* C28: on a stream that begins with a complete header block fitting the
\* buffer, Read never returns an error, it does return, and the header it
\* returns with is the one a parse of the whole stream yields, with exactly
\* the bytes after the header block left in the reader and the stream.
C28_ReadSucceedsOnAnyFragmentation ==
    /\ [](FitsBuffer =>
            /\ rd.pc \in {"read", "done"}
            /\ rd.pc = "done" =>
                  /\ rd.h = parse(rd.whole)
                  /\ rd.buf \o rd.under
                        = SubSeq(rd.whole, rd.h.len + 1, Len(rd.whole)))
    /\ (FitsBuffer => <>(rd.pc = "done"))

\* A Read that came to its end after more than one tryRead, on a header
\* block that arrived in several fragments.
C28_Witness ==
    /\ FitsBuffer
    /\ rd.pc = "done"
    /\ rd.n > 2
    /\ rd.h.raw # <<>>

\* ------------------------------------------------------------------------
\* SpecMessage and SpecRoundTrip: whole messages on a stream.  The header
\* block of a message is one item of the stream (reading it is the matter
\* of SpecRead and SpecHeader); every byte of the body and of its framing
\* is an item of its own.
\* ------------------------------------------------------------------------
\* What the header block of a message says: contentLength is -1 for
\* Transfer-Encoding: chunked and -2 when no length is given.
WireHeader(kind, post, status, contentLength, contentType, server) ==
    [kind |-> kind, post |-> post, status |-> status,
     contentLength |-> contentLength, contentType |-> contentType,
     server |-> server]

NoWireHeader == WireHeader("none", FALSE, 0, 0, "", "")

HeaderItem(h) == [tok |-> "hdr", v |-> "", h |-> h]
ByteItem(v) == [tok |-> "byte", v |-> v, h |-> NoWireHeader]
Items(vs) == [i \in 1..Len(vs) |-> ByteItem(vs[i])]

HexDigits == <<"0", "1", "2", "3", "4", "5", "6", "7", "8", "9", "a", "b",
               "c", "d", "e", "f">>

\* The value of a hex digit, -1 for any other byte.
HexValue(item) ==
    IF item.tok = "byte" /\ \E i \in 1..16 : HexDigits[i] = item.v
        THEN (CHOOSE i \in 1..16 : HexDigits[i] = item.v) - 1
        ELSE -1

Bodies == UNION {[1..n -> {"x"}] : n \in 0..MaxBody}

\* writeChunk: the size in hex, CRLF, the bytes, CRLF.
writeChunk(b) == Items(<<HexDigits[Len(b) + 1], "CR", "LF">> \o b
                       \o <<"CR", "LF">>)

\* A chunked body, in one chunk or in chunks of one byte, and the chunk of
\* size 0 that ends it.
RECURSIVE ChunkedBody(_, _)
ChunkedBody(b, single) ==
    IF b = <<>> THEN writeChunk(<<>>)
    ELSE IF single THEN writeChunk(<<b[1]>>) \o ChunkedBody(Tail(b), single)
    ELSE writeChunk(b) \o writeChunk(<<>>)

\* The messages a peer sends: a header block and the body in the framing
\* the header block announces.  A request that is no POST and a response
\* with a status that admits no body have no body.
PeerMessage(kind, post, status, framing, body, single) ==
    LET none == (kind = "request" /\ ~post)
                    \/ (kind = "response" /\ status = StatusNoContent)
        cl == IF framing = "fixed" THEN Len(body)
              ELSE IF framing = "chunked" THEN -1 ELSE -2
        h == WireHeader(kind, post, status, cl, "aaa", "srv")
    IN  [framing |-> IF none THEN "none" ELSE framing,
         body |-> IF none THEN <<>> ELSE body,
         bytes |-> <<HeaderItem(h)>> \o
                   (IF none THEN <<>>
                    ELSE IF framing = "chunked" THEN ChunkedBody(body, single)
                    ELSE Items(body))]

PeerMessages(kind) ==
    {PeerMessage(kind, post, status, framing, body, single) :
        post \in IF kind = "request" THEN BOOLEAN ELSE {FALSE},
        status \in IF kind = "request" THEN {0}
                   ELSE {StatusOK, StatusNoContent},
        framing \in {"fixed", "chunked", "identity"}, body \in Bodies,
        single \in BOOLEAN}

\* The bytes of the messages from the i-th on.
RECURSIVE BytesFrom(_, _)
BytesFrom(msgs, i) ==
    IF i > Len(msgs) THEN <<>> ELSE msgs[i].bytes \o BytesFrom(msgs, i + 1)

\* A peer has sent MaxMsgs messages, requests or responses, one after the
\* other, and may have closed the connection before the last byte.
InitMessage ==
    /\ cfg \in [MaxConns : {0}]
    /\ NoLoop
    /\ NoAdmission
    /\ NoPool
    /\ NoClock
    /\ NoClient
    /\ NoHelper
    /\ NoDial
    /\ NoMaps
    /\ NoHeaders
    /\ NoRead
    /\ NoLate
    /\ \E kind \in {"request", "response"}, cut \in 0..1 :
          \E msgs \in [1..MaxMsgs -> PeerMessages(kind)] :
             LET all == BytesFrom(msgs, 1)
                 whole == SubSeq(all, 1, Len(all) - cut)
             IN  ms = [kind |-> kind, sent |-> msgs, whole |-> whole,
                       stream |-> whole, results |-> <<>>]

\* What a Read returns: the error, the header and the body, and the bytes
\* it leaves in the reader.
ReadResult_(e, h, body, rest) ==
    [err |-> e, h |-> h, body |-> body, rest |-> rest]

\* readHexInt: the hex digits at the front of s; the byte after them is
\* put back with UnreadByte.  n is the number read so far, i the number of
\* digits.
RECURSIVE readHexInt(_, _, _)
readHexInt(s, n, i) ==
    IF s = <<>> THEN [err |-> "EOF", n |-> -1, rest |-> s]
    ELSE IF HexValue(s[1]) >= 0
        THEN readHexInt(Tail(s), n * 16 + HexValue(s[1]), i + 1)
    ELSE IF i = 0 THEN [err |-> "empty hex", n |-> -1, rest |-> Tail(s)]
    ELSE [err |-> "nil", n |-> n, rest |-> s]

\* parseChunkSize: the hex number, then '\r', then '\n'.
parseChunkSize(s) ==
    LET x == readHexInt(s, 0, 0)
    IN  IF x.err # "nil" THEN x
        ELSE IF Len(x.rest) < 2 THEN [err |-> "EOF", n |-> -1, rest |-> <<>>]
        ELSE IF x.rest[1] # ByteItem("CR") \/ x.rest[2] # ByteItem("LF")
            THEN [err |-> "unexpected char", n |-> -1, rest |-> x.rest]
        ELSE [err |-> "nil", n |-> x.n, rest |-> SubSeq(x.rest, 3, Len(x.rest))]

\* appendBodyFixedSize: n more bytes are read, whatever they are.
appendBodyFixedSize(s, dst, n) ==
    IF Len(s) < n
        THEN [err |-> "ErrUnexpectedEOF", dst |-> dst \o s, rest |-> <<>>]
        ELSE [err |-> "nil", dst |-> dst \o SubSeq(s, 1, n),
              rest |-> SubSeq(s, n + 1, Len(s))]

\* readBodyChunked: chunk after chunk, each followed by CRLF, up to and
\* with the chunk of size 0.
RECURSIVE readBodyChunked(_, _)
readBodyChunked(s, dst) ==
    LET c == parseChunkSize(s)
        a == appendBodyFixedSize(c.rest, dst, c.n + 2)
        n == Len(a.dst)
    IN  IF c.err # "nil" THEN [err |-> c.err, dst |-> dst, rest |-> c.rest]
        ELSE IF a.err # "nil" THEN a
        ELSE IF a.dst[n - 1] # ByteItem("CR") \/ a.dst[n] # ByteItem("LF")
            THEN [err |-> "no crlf", dst |-> a.dst, rest |-> a.rest]
        ELSE IF c.n = 0
            THEN [err |-> "nil", dst |-> SubSeq(a.dst, 1, n - 2),
                  rest |-> a.rest]
        ELSE readBodyChunked(a.rest, SubSeq(a.dst, 1, n - 2))

\* readBody: a fixed size, chunked, or everything up to the end of the
\* stream (readBodyIdentity).
readBody(s, contentLength) ==
    IF contentLength >= 0 THEN appendBodyFixedSize(s, <<>>, contentLength)
    ELSE IF contentLength = -1 THEN readBodyChunked(s, <<>>)
    ELSE [err |-> "nil", dst |-> s, rest |-> <<>>]

\* (mutant: a body is read after every status code)
isSkipResponseBody_Never(statusCode) == FALSE

\* isSkipResponseBody: 1xx, 204 and 304 responses have no body.
isSkipResponseBody(statusCode) ==
    \/ statusCode >= 100 /\ statusCode < 200
    \/ statusCode = StatusNoContent
    \/ statusCode = 304

\* Header.Read followed by the reading of the body, if the message has
\* one; the content length of the header becomes the length of the body.
MessageRead(s, kind) ==
    IF s = <<>> THEN ReadResult_("EOF", NoWireHeader, <<>>, s)
    ELSE IF s[1].tok # "hdr" \/ s[1].h.kind # kind
        THEN ReadResult_("header", NoWireHeader, <<>>, s)
    ELSE LET h == s[1].h
             hasBody == IF kind = "request" THEN h.post
                        ELSE ~isSkipResponseBody(h.status)
             b == readBody(Tail(s), h.contentLength)
         IN  IF ~hasBody THEN ReadResult_("nil", h, <<>>, Tail(s))
             ELSE IF b.err # "nil"
                 THEN ReadResult_(b.err, NoWireHeader, <<>>, b.rest)
             ELSE ReadResult_("nil", [h EXCEPT !.contentLength = Len(b.dst)],
                              b.dst, b.rest)

\* The stream can be read from: nothing failed so far and not every
\* message sent has been read.
Readable ==
    /\ Len(ms.results) < Len(ms.sent)
    /\ \A i \in 1..Len(ms.results) : ms.results[i].err = "nil"

\* Request.Read
RequestRead ==
    /\ ms.kind = "request"
    /\ Readable
    /\ LET r == MessageRead(ms.stream, "request")
       IN  ms' = [ms EXCEPT !.stream = r.rest,
                            !.results = Append(ms.results, r)]
    /\ UNCHANGED outsideMessages

\* Response.Read
ResponseRead ==
    /\ ms.kind = "response"
    /\ Readable
    /\ LET r == MessageRead(ms.stream, "response")
       IN  ms' = [ms EXCEPT !.stream = r.rest,
                            !.results = Append(ms.results, r)]
    /\ UNCHANGED outsideMessages

NextMessage == RequestRead \/ ResponseRead

SpecMessage == InitMessage /\ [][NextMessage]_vars

\* The number of bytes of the first k messages sent.
RECURSIVE SentLen(_, _)
SentLen(msgs, k) ==
    IF k = 0 THEN 0 ELSE SentLen(msgs, k - 1) + Len(msgs[k].bytes)

\* The messages read so far had a fixed-size or chunked body, or none.
FramedSoFar ==
    \A i \in 1..Len(ms.results) : ms.sent[i].framing # "identity"

\* C29: when the last Read returned without error, and no message read so
\* far had a body that ends with the stream, the Read returned the body of
\* the message and what is left unread are exactly the bytes sent after
\* that message.
C29_ReadConsumesOneMessage ==
    LET k == Len(ms.results)
    IN  k > 0 /\ ms.results[k].err = "nil" /\ FramedSoFar =>
           /\ ms.results[k].body = Items(ms.sent[k].body)
           /\ ms.stream = SubSeq(ms.whole, SentLen(ms.sent, k) + 1,
                                 Len(ms.whole))

\* A chunked message was read with another message behind it, which is
\* still unread.
C29_Witness ==
    /\ Len(ms.results) = 1
    /\ ms.results[1].err = "nil"
    /\ ms.sent[1].framing = "chunked"
    /\ ms.sent[1].body # <<>>
    /\ ms.stream # <<>>
    /\ ms.stream = ms.sent[2].bytes

\* ------------------------------------------------------------------------
\* SpecRoundTrip: responses are written into a buffer with Response.Write
\* and read back from it with Response.Read.
\* ------------------------------------------------------------------------
\* The responses to write: the status code, the Content-Type and the
\* Server header may be left unset (0 and ""); Body is set, BodyStream is
\* not.
Responses ==
    [StatusCode : {0, StatusOK, StatusNoContent}, contentType : {"", "aaa"},
     server : {"", "srv"}, Body : Bodies]

InitRoundTrip ==
    /\ cfg \in [MaxConns : {0}]
    /\ NoLoop
    /\ NoAdmission
    /\ NoPool
    /\ NoClock
    /\ NoClient
    /\ NoHelper
    /\ NoDial
    /\ NoMaps
    /\ NoHeaders
    /\ NoRead
    /\ NoLate
    /\ ms = NewStream("response")

\* ResponseHeader.Write: a status code of 0 is written as 200, a missing
\* Server and a missing Content-Type as their defaults, the content length
\* as it was set.
ResponseHeaderWrite(r, contentLength) ==
    WireHeader("response", FALSE,
               IF r.StatusCode = 0 THEN StatusOK ELSE r.StatusCode,
               contentLength,
               IF r.contentType = "" THEN "defaultContentType"
               ELSE r.contentType,
               IF r.server = "" THEN "defaultServerName" ELSE r.server)

\* Response.Write of a response without BodyStream: the content length is
\* set to len(resp.Body), the header is written, then the body.
ResponseWrite(r) ==
    /\ Len(ms.sent) < MaxMsgs
    /\ LET bytes == <<HeaderItem(ResponseHeaderWrite(r, Len(r.Body)))>>
                       \o Items(r.Body)
       IN  ms' = [ms EXCEPT
                     !.sent = Append(ms.sent,
                                     [framing |-> "fixed", body |-> r.Body,
                                      bytes |-> bytes, r |-> r]),
                     !.whole = ms.whole \o bytes,
                     !.stream = ms.stream \o bytes]
    /\ UNCHANGED outsideMessages

NextRoundTrip ==
    \/ \E r \in Responses : ResponseWrite(r)
    \/ ResponseRead

SpecRoundTrip == InitRoundTrip /\ [][NextRoundTrip]_vars

\* The status code, the Content-Type and the Server header of r are set.
WellFormed(r) == r.StatusCode # 0 /\ r.contentType # "" /\ r.server # ""

\* C30: when the responses written so far were well-formed, the last Read
\* returned without error the status code, the content length, the
\* Content-Type, the Server header and the body of the response that was
\* written.
C30_WriteReadRoundTrip ==
    LET k == Len(ms.results)
    IN  k > 0 /\ (\A i \in 1..k : WellFormed(ms.sent[i].r)) =>
           /\ ms.results[k].err = "nil"
           /\ ms.results[k].h.status = ms.sent[k].r.StatusCode
           /\ ms.results[k].h.contentLength = Len(ms.sent[k].r.Body)
           /\ ms.results[k].h.contentType = ms.sent[k].r.contentType
           /\ ms.results[k].h.server = ms.sent[k].r.server
           /\ ms.results[k].body = Items(ms.sent[k].r.Body)

\* ------------------------------------------------------------------------
\* SpecWrite: one Response.Write call on a response whose body is a
\* BodyStream (or, with BodyStream nil, a Body of size bytes).
\* ------------------------------------------------------------------------
\* The calls: ContentLength is the header's content length, BodyStream a
\* plain io.Reader, one that is an io.Closer as well, or nil; the stream
\* yields size bytes and then io.EOF (readErr: another error); the writer
\* fails while the header is written, at the first write of the body, or
\* not at all.
WriteCalls ==
    [pc : {"call"}, ContentLength : -1..(MaxBody + 1),
     BodyStream : {"nil", "reader", "closer"}, size : 0..MaxBody,
     readErr : BOOLEAN, wErr : {"none", "header", "body"}, closed : {0},
     n : {0}, err : {"nil"}]

InitWrite ==
    /\ cfg \in [MaxConns : {0}]
    /\ NoLoop
    /\ NoAdmission
    /\ NoPool
    /\ NoClock
    /\ NoClient
    /\ NoHelper
    /\ NoDial
    /\ NoMaps
    /\ NoHeaders
    /\ NoRead
    /\ NoMessages
    /\ args = NoArgs
    /\ copy = NoCopy
    /\ NoStatus
    /\ NoOldRead
    /\ NoNewDial
    /\ wr \in WriteCalls

\* writeBodyFixedSize: io.CopyBuffer from a LimitedReader of size bytes.
\* The copy ends at the limit, at the stream's end or at the first error;
\* fewer than size bytes without an error is an error as well.
writeBodyFixedSize(w, size) ==
    LET avail == IF w.size < size THEN w.size ELSE size
    IN  IF avail > 0 /\ w.wErr = "body" THEN [n |-> 0, err |-> "write"]
        ELSE IF avail < size /\ w.readErr THEN [n |-> avail, err |-> "read"]
        ELSE IF avail # size THEN [n |-> avail, err |-> "short"]
        ELSE [n |-> avail, err |-> "nil"]

\* writeBodyChunked: one chunk per Read of the stream, the chunk of size 0
\* when the stream returns io.EOF; the loop breaks at the first error.
writeBodyChunked(w) ==
    IF w.wErr = "body" THEN [n |-> 0, err |-> "write"]
    ELSE IF w.readErr THEN [n |-> w.size, err |-> "read"]
    ELSE [n |-> w.size, err |-> "nil"]

\* bsc.Close(), when BodyStream is an io.Closer.
CloseStream(w) ==
    IF w.BodyStream = "closer" THEN [w EXCEPT !.closed = @ + 1] ELSE w

\* Response.Write.
ResponseWriteStream ==
    /\ wr.pc = "call"
    /\ LET ret(w, e) == [w EXCEPT !.pc = "returned", !.err = e]
           body == IF wr.ContentLength > 0
                   THEN writeBodyFixedSize(wr, wr.ContentLength)
                   ELSE writeBodyChunked(wr)
           chunked == [wr EXCEPT !.ContentLength =
                                     IF wr.ContentLength > 0 THEN @ ELSE -1]
       IN  IF wr.BodyStream # "nil"
           THEN IF wr.wErr = "header" THEN wr' = ret(chunked, "write")
                ELSE IF body.err # "nil"
                THEN wr' = ret([chunked EXCEPT !.n = body.n], body.err)
                ELSE wr' = ret(CloseStream([chunked EXCEPT !.n = body.n]),
                               "nil")
           ELSE LET fixed == [wr EXCEPT !.ContentLength = wr.size]
                IN  IF wr.wErr # "none" THEN wr' = ret(fixed, "write")
                    ELSE wr' = ret([fixed EXCEPT !.n = wr.size], "nil")
    /\ UNCHANGED outsideWrite

NextWrite == ResponseWriteStream

SpecWrite == InitWrite /\ [][NextWrite]_vars

\* C31: when Response.Write has returned for a response whose BodyStream
\* has a Close operation, Close was called exactly once, whatever the
\* call returned.
C31_StreamClosedOnceAfterWrite ==
    wr.pc = "returned" /\ wr.BodyStream = "closer" => wr.closed = 1

\* ------------------------------------------------------------------------
\* SpecArgs: a query string is parsed into an Args object with Parse and
\* serialized again with String.  Bytes are their ASCII codes.
\* ------------------------------------------------------------------------
\* The longest query string parsed.
MaxQuery == 4

\* The bytes query strings are made of: x . / % 2 0 E = & +
QueryBytes == {120, 46, 47, 37, 50, 48, 69, 61, 38, 43}

QueryStrings == UNION {[1..n -> QueryBytes] : n \in 0..MaxQuery}

InitArgs ==
    /\ cfg \in [MaxConns : {0}]
    /\ NoLoop
    /\ NoAdmission
    /\ NoPool
    /\ NoClock
    /\ NoClient
    /\ NoHelper
    /\ NoDial
    /\ NoMaps
    /\ NoHeaders
    /\ NoRead
    /\ NoMessages
    /\ wr = NoWrite
    /\ copy = NoCopy
    /\ NoStatus
    /\ NoOldRead
    /\ NoNewDial
    /\ \E s \in QueryStrings : args = [NoArgs EXCEPT !.pc = "new", !.s = s]

\* hexChar.
hexChar(c) == IF c < 10 THEN 48 + c ELSE c - 10 + 65

\* unhex.
unhex(c) ==
    IF c >= 48 /\ c <= 57 THEN c - 48
    ELSE IF c >= 97 /\ c <= 102 THEN 10 + (c - 97)
    ELSE IF c >= 65 /\ c <= 70 THEN 10 + (c - 65)
    ELSE -1

\* The bytes appendQuotedArg appends as they are.
Verbatim(c) ==
    \/ c >= 48 /\ c <= 57
    \/ c >= 97 /\ c <= 122
    \/ c >= 65 /\ c <= 90
    \/ c = 47

\* appendQuotedArg(nil, v).
RECURSIVE appendQuotedArg(_)
appendQuotedArg(v) ==
    IF v = <<>> THEN <<>>
    ELSE LET c == Head(v)
         IN  (IF Verbatim(c) THEN <<c>>
              ELSE <<37, hexChar(c \div 16), hexChar(c % 16)>>)
             \o appendQuotedArg(Tail(v))

\* decodeArg(nil, src, decodePlus), from index i (1-based) on.
RECURSIVE decodeArgFrom(_, _, _)
decodeArgFrom(src, i, decodePlus) ==
    LET n == Len(src)
    IN  IF i > n THEN <<>>
        ELSE LET c == src[i]
             IN  IF c = 43
                 THEN <<IF decodePlus THEN 32 ELSE c>>
                          \o decodeArgFrom(src, i + 1, decodePlus)
                 ELSE IF c = 37
                 THEN IF i + 2 > n THEN SubSeq(src, i, n)
                      ELSE LET x1 == unhex(src[i + 1])
                               x2 == unhex(src[i + 2])
                           IN  IF x1 < 0 \/ x2 < 0
                               THEN <<c>> \o decodeArgFrom(src, i + 1,
                                                           decodePlus)
                               ELSE <<x1 * 16 + x2>>
                                       \o decodeArgFrom(src, i + 3,
                                                        decodePlus)
                 ELSE <<c>> \o decodeArgFrom(src, i + 1, decodePlus)

decodeArg(src, decodePlus) == decodeArgFrom(src, 1, decodePlus)

\* bytes.IndexByte, 1-based; 0 when c is not in b.
IndexByte(b, c) ==
    IF \E i \in 1..Len(b) : b[i] = c
    THEN CHOOSE i \in 1..Len(b) : b[i] = c /\ \A j \in 1..(i - 1) : b[j] # c
    ELSE 0

\* argsParser.next on the bytes b: the pair up to the next & and the
\* bytes left.
argsParserNext(b) ==
    LET n == IndexByte(b, 38)
        pair == IF n = 0 THEN b ELSE SubSeq(b, 1, n - 1)
        left == IF n = 0 THEN <<>> ELSE SubSeq(b, n + 1, Len(b))
        m == IndexByte(pair, 61)
    IN  [key |-> IF m = 0 THEN decodeArg(pair, TRUE)
                 ELSE decodeArg(SubSeq(pair, 1, m - 1), TRUE),
         value |-> IF m = 0 THEN <<>>
                   ELSE decodeArg(SubSeq(pair, m + 1, Len(pair)), TRUE),
         b |-> left]

\* Args.ParseBytes: the pairs argsParser.Next yields, which skips the
\* pairs whose key and value are both empty.
RECURSIVE ParseBytes(_)
ParseBytes(b) ==
    IF b = <<>> THEN <<>>
    ELSE LET kv == argsParserNext(b)
         IN  (IF kv.key # <<>> \/ kv.value # <<>>
              THEN <<[key |-> kv.key, value |-> kv.value]>>
              ELSE <<>>)
             \o ParseBytes(kv.b)

\* Args.AppendBytes(nil), from pair i on.
RECURSIVE AppendBytesFrom(_, _)
AppendBytesFrom(a, i) ==
    IF i > Len(a) THEN <<>>
    ELSE appendQuotedArg(a[i].key)
         \o (IF Len(a[i].value) > 0
             THEN <<61>> \o appendQuotedArg(a[i].value) ELSE <<>>)
         \o (IF i + 1 <= Len(a) THEN <<38>> ELSE <<>>)
         \o AppendBytesFrom(a, i + 1)

AppendBytes(a) == AppendBytesFrom(a, 1)

\* Args.Parse(s).
ArgsParse ==
    /\ args.pc = "new"
    /\ args' = [args EXCEPT !.pc = "parsed", !.args = ParseBytes(args.s)]
    /\ UNCHANGED outsideArgs

\* Args.String().
ArgsString ==
    /\ args.pc = "parsed"
    /\ args' = [args EXCEPT !.pc = "written", !.out = AppendBytes(args.args)]
    /\ UNCHANGED outsideArgs

NextArgs == ArgsParse \/ ArgsString

SpecArgs == InitArgs /\ [][NextArgs]_vars

\* The bytes of [A-Za-z0-9/.].
Unreserved(c) == Verbatim(c) \/ c = 46

\* s[i..] is made of bytes of [A-Za-z0-9/.] and of escapes %XX, in upper
\* case, of bytes outside that set.
RECURSIVE QuotedFrom(_, _)
QuotedFrom(s, i) ==
    IF i > Len(s) THEN TRUE
    ELSE IF Unreserved(s[i]) THEN QuotedFrom(s, i + 1)
    ELSE /\ s[i] = 37
         /\ i + 2 <= Len(s)
         /\ LET x1 == unhex(s[i + 1])
                x2 == unhex(s[i + 2])
            IN  /\ x1 >= 0 /\ x2 >= 0
                /\ s[i + 1] = hexChar(x1) /\ s[i + 2] = hexChar(x2)
                /\ ~Unreserved(x1 * 16 + x2)
         /\ QuotedFrom(s, i + 3)

\* s is in normal form: pairs joined by &, each a quoted key alone or a
\* quoted key, = and a quoted value that is not empty; no pair is empty.
RECURSIVE NormalForm(_)
NormalForm(s) ==
    \/ s = <<>>
    \/ LET n == IndexByte(s, 38)
           pair == IF n = 0 THEN s ELSE SubSeq(s, 1, n - 1)
           m == IndexByte(pair, 61)
       IN  /\ pair # <<>>
           /\ IF m = 0 THEN QuotedFrom(pair, 1)
              ELSE /\ QuotedFrom(SubSeq(pair, 1, m - 1), 1)
                   /\ m < Len(pair)
                   /\ QuotedFrom(SubSeq(pair, m + 1, Len(pair)), 1)
           /\ n # 0 => /\ n < Len(s)
                       /\ NormalForm(SubSeq(s, n + 1, Len(s)))

\* C32: a query string in normal form, parsed and serialized again, comes
\* out as it was.
C32_NormalFormRoundTrips ==
    args.pc = "written" /\ NormalForm(args.s) => args.out = args.s

\* ------------------------------------------------------------------------
\* SpecCopy: src.CopyTo(dst) on two Request objects, and setters called on
\* src afterwards.  The byte slices of a Request are buffers on a heap: a
\* field holds the id of its buffer, heap[id] is what the buffer holds.
\* ------------------------------------------------------------------------
\* The fields of a Request that are byte slices or lists of pairs.
BufFields ==
    {"method", "requestURI", "host", "contentType", "userAgent",
     "contentLengthBytes", "h", "cookies", "Body"}

\* The buffers of src and of dst.
BufId(who, f) == <<who, f>>
BufIds == {"src", "dst"} \X BufFields

InitCopy ==
    /\ cfg \in [MaxConns : {0}]
    /\ NoLoop
    /\ NoAdmission
    /\ NoPool
    /\ NoClock
    /\ NoClient
    /\ NoHelper
    /\ NoDial
    /\ NoMaps
    /\ NoHeaders
    /\ NoRead
    /\ NoMessages
    /\ wr = NoWrite
    /\ args = NoArgs
    /\ NoStatus
    /\ NoOldRead
    /\ NoNewDial
    /\ \E vals \in [BufFields \ {"contentLengthBytes"} ->
                       {"", "set"}],
          close \in BOOLEAN, used \in BOOLEAN :
          LET val(f) == IF f = "contentLengthBytes" THEN vals["Body"]
                        ELSE vals[f]
              req(who) ==
                  [connectionClose |-> who = "src" /\ close,
                   contentLength |->
                       IF who = "src" /\ vals["Body"] # "" THEN 1 ELSE 0,
                   buf |-> [f \in BufFields |-> BufId(who, f)]]
          IN  copy = [pc |-> "new",
                      heap |-> [b \in BufIds |->
                                   IF b[1] = "src"
                                   THEN (IF val(b[2]) = "" THEN "" ELSE b[2])
                                   ELSE (IF used THEN "old" ELSE "")],
                      src |-> req("src"),
                      dst |-> [req("dst") EXCEPT
                                  !.connectionClose = used,
                                  !.contentLength = IF used THEN 2 ELSE 0],
                      was |-> [f \in BufFields |-> ""],
                      wasClose |-> FALSE,
                      wasLength |-> 0]

\* The field of h that RequestHeader.CopyTo appends to field f of dst.
CopiedFrom(f) == IF f = "method" THEN "host" ELSE f

\* Request.CopyTo: dst.Clear(), RequestHeader.CopyTo, and the body.  Each
\* field is appended to dst's own buffer, cut to length 0.  was, wasClose
\* and wasLength keep what src held when CopyTo was called.
RequestCopyTo ==
    /\ copy.pc = "new"
    /\ copy' = [copy EXCEPT
          !.pc = "copied",
          !.heap = [b \in BufIds |->
                       IF b[1] = "dst"
                       THEN copy.heap[copy.src.buf[CopiedFrom(b[2])]]
                       ELSE copy.heap[b]],
          !.dst.connectionClose = copy.src.connectionClose,
          !.dst.contentLength = copy.src.contentLength,
          !.was = [f \in BufFields |-> copy.heap[copy.src.buf[f]]],
          !.wasClose = copy.src.connectionClose,
          !.wasLength = copy.src.contentLength]
    /\ UNCHANGED outsideCopy

\* A setter called on src after CopyTo (SetMethod, SetRequestURI, SetHost,
\* Set, SetCookie, a write to Body, ...): the new value is appended to
\* src's own buffer.
RequestSet(f) ==
    /\ copy.pc = "copied"
    /\ copy' = [copy EXCEPT !.pc = "changed",
                            !.heap[copy.src.buf[f]] = "new"]
    /\ UNCHANGED outsideCopy

\* SetConnectionClose and SetContentLength called on src after CopyTo.
RequestSetFlags ==
    /\ copy.pc = "copied"
    /\ copy' = [copy EXCEPT !.pc = "changed",
                            !.src.connectionClose = ~@,
                            !.src.contentLength = @ + 1]
    /\ UNCHANGED outsideCopy

NextCopy ==
    \/ RequestCopyTo
    \/ \E f \in BufFields : RequestSet(f)
    \/ RequestSetFlags

SpecCopy == InitCopy /\ [][NextCopy]_vars

\* C33: after src.CopyTo(dst), also after a later change of src, every
\* field of dst and its body hold what src held when CopyTo was called.
C33_CopyEqualsSourceAndIsDeep ==
    copy.pc \in {"copied", "changed"} =>
        /\ \A f \in BufFields : copy.heap[copy.dst.buf[f]] = copy.was[f]
        /\ copy.dst.connectionClose = copy.wasClose
        /\ copy.dst.contentLength = copy.wasLength

\* ------------------------------------------------------------------------
\* SpecStatus: tasks call statusLine concurrently.  Load and Store on the
\* atomic.Value are one step each; the copy of the map between them
\* touches only the caller's own new map.
\* ------------------------------------------------------------------------
StatusInternalServerError == 500
StatusNotFound == 404

StatusCodes == {StatusOK, StatusNotFound, StatusInternalServerError}

InitStatus ==
    /\ cfg \in [MaxConns : {0}]
    /\ NoLoop
    /\ NoAdmission
    /\ NoPool
    /\ NoClock
    /\ NoClient
    /\ NoHelper
    /\ NoDial
    /\ NoMaps
    /\ NoHeaders
    /\ NoRead
    /\ NoMessages
    /\ wr = NoWrite
    /\ args = NoArgs
    /\ copy = NoCopy
    /\ NoStatus
    /\ NoOldRead
    /\ NoNewDial

\* statusLine up to its return on a hit: the map is loaded and looked up.
\* On a miss the task goes on to build newM.
StatusLineLoad(t, statusCode) ==
    /\ liners[t].pc = "idle"
    /\ liners' = [liners EXCEPT ![t] =
                     [pc |-> IF statusCode \in statusLines THEN "idle"
                             ELSE "miss",
                      statusCode |-> statusCode, m |-> statusLines]]
    /\ UNCHANGED <<outsideStatus, statusLines>>

\* statusLine after a miss: newM is the map that was loaded plus the new
\* line, and is stored.
StatusLineStore(t) ==
    /\ liners[t].pc = "miss"
    /\ statusLines' = liners[t].m \cup {liners[t].statusCode}
    /\ liners' = [liners EXCEPT ![t].pc = "idle"]
    /\ UNCHANGED outsideStatus

NextStatus ==
    \/ \E t \in Calls, statusCode \in StatusCodes :
          StatusLineLoad(t, statusCode)
    \/ \E t \in Calls : StatusLineStore(t)

SpecStatus == InitStatus /\ [][NextStatus]_vars

\* C34: the cache only grows: a status code that has a line in the cache
\* has one in every later version of the cache.
C34_StatusLineCacheOnlyGrows == [][statusLines \subseteq statusLines']_vars

\* ------------------------------------------------------------------------
\* SpecConn: the timed-out ctx
\* ------------------------------------------------------------------------
\* C35: in a step of the serveConn loop (the steps that move pc), a ctx
\* whose TimeoutHandler timer has fired is left as it is: the loop writes
\* neither its Request, its Response nor its hijack handler.
C35_LoopLeavesTimedOutCtxAlone ==
    [][pc' # pc =>
          \A i \in 1..MaxRequests :
             outcome[i] = "timer" =>
                ctxs'[tasks[i].ctx] = ctxs[tasks[i].ctx]]_vars

\* ------------------------------------------------------------------------
\* SpecServe: responses left in the writer
\* ------------------------------------------------------------------------
\* C36: when serveConn has returned, the response to every request that
\* was passed to the handler is on the connection.
C36_HandledResponsesReachConnection ==
    pc = "done" =>
        \A n \in 1..Len(handled) : \E k \in 1..Len(wire) : wire[k].for = n

\* ------------------------------------------------------------------------
\* SpecClient: the clientConn acquireConn returns after a dial
\* ------------------------------------------------------------------------
\* C37: in the step in which a Do call's dial succeeds and acquireConn
\* returns, the clientConn returned holds the net.Conn that was dialed in
\* that step.
C37_DialedConnIsReturned ==
    [][\A d \in Calls :
          does[d].pc = "dial" /\ does'[d].pc = "use" =>
             \E n \in NetConns :
                /\ netConns[n] = "none"
                /\ netConns'[n] = "open"
                /\ ccs'[does'[d].cc].c = n]_vars

\* ------------------------------------------------------------------------
\* SpecOldRead: the serveConn loops of the older server (server.go) on
\* several connections that share Server.readersPool.  With a ReadTimeout
\* and a connection that has no SetReadDeadline the request is read by
\* Request.ReadTimeout, which starts a goroutine for the read and waits
\* for it or for a timer.
\* ------------------------------------------------------------------------
Readers == 1..NumConns

InitOldRead ==
    /\ cfg \in [ReadTimeout : 0..1, readDeadliner : BOOLEAN]
    /\ NoLoop
    /\ NoAdmission
    /\ NoPool
    /\ NoClock
    /\ NoClient
    /\ NoHelper
    /\ NoDial
    /\ NoMaps
    /\ NoHeaders
    /\ NoRead
    /\ NoMessages
    /\ wr = NoWrite
    /\ args = NoArgs
    /\ copy = NoCopy
    /\ NoStatus
    /\ NoOldRead
    /\ NoNewDial

\* The readers some loop or some reading task holds.
ReadersHeld ==
    {rtConns[c].br : c \in Conns}
       \cup {rtConns[c].taskBr : c \in {d \in Conns :
                                          rtConns[d].task = "reading"}}

\* acquireReader: a reader out of readersPool, or, the pool being empty,
\* a new one.
AcquireReaderChoices ==
    IF readersPool # {} THEN readersPool
    ELSE {CHOOSE r \in Readers : r \notin ReadersHeld}

\* serveConn's rd: the connection has SetReadDeadline and ReadTimeout is
\* set.
UsesDeadline == cfg.ReadTimeout > 0 /\ cfg.readDeadliner

\* What a read of request number n can return: the peer sends at most
\* MaxRequests requests.
OldReadResults(n) == IF n < MaxRequests THEN {"ok", "err"} ELSE {"err"}

\* serveConn, one read done on the loop's own goroutine: Request.Read
\* under a read deadline, or Request.ReadTimeout with timeout <= 0.  br
\* is acquired when nil, and released when nothing is buffered in it (in
\* the deadline branch: or the read failed).
OldReadSync(c) ==
    /\ rtConns[c].pc = "read"
    /\ UsesDeadline \/ cfg.ReadTimeout = 0
    /\ \E r \in (IF rtConns[c].br = 0 THEN AcquireReaderChoices
                 ELSE {rtConns[c].br}),
          res \in OldReadResults(rtConns[c].n), buffered \in BOOLEAN :
          LET release == ~buffered \/ (UsesDeadline /\ res = "err")
          IN  /\ readersPool' = IF release
                                THEN (readersPool \ {r}) \cup {r}
                                ELSE readersPool \ {r}
              /\ rtConns' = [rtConns EXCEPT ![c] =
                    [@ EXCEPT !.br = IF release THEN 0 ELSE r,
                              !.n = @ + 1,
                              !.err = res,
                              !.pc = IF res = "ok" THEN "handler"
                                     ELSE "exit"]]
    /\ UNCHANGED outsideOldRead

\* serveConn and Request.ReadTimeout with timeout > 0 up to the select:
\* br is acquired when nil, the goroutine running req.Read(r) is started
\* and the timer armed.
OldReadTimeoutStart(c) ==
    /\ rtConns[c].pc = "read"
    /\ ~UsesDeadline /\ cfg.ReadTimeout > 0
    /\ \E r \in (IF rtConns[c].br = 0 THEN AcquireReaderChoices
                 ELSE {rtConns[c].br}) :
          /\ readersPool' = readersPool \ {r}
          /\ rtConns' = [rtConns EXCEPT ![c] =
                [@ EXCEPT !.br = r, !.n = @ + 1, !.task = "reading",
                          !.taskBr = r, !.pc = "select"]]
    /\ UNCHANGED outsideOldRead

\* The goroutine of Request.ReadTimeout: req.Read(r) returns and its
\* result is sent on ch, which has room for one value.
OldReadTaskDone(c) ==
    /\ rtConns[c].task = "reading"
    /\ \E res \in OldReadResults(rtConns[c].n - 1) :
          rtConns' = [rtConns EXCEPT ![c] =
                         [@ EXCEPT !.task = "done", !.res = res]]
    /\ UNCHANGED <<outsideOldRead, readersPool>>

\* Request.ReadTimeout's select, case err = <-ch, and serveConn after it:
\* br is released when nothing is buffered in it.
OldSelectRead(c) ==
    /\ rtConns[c].pc = "select"
    /\ rtConns[c].task = "done"
    /\ \E buffered \in BOOLEAN :
          /\ readersPool' = IF buffered THEN readersPool
                            ELSE readersPool \cup {rtConns[c].br}
          /\ rtConns' = [rtConns EXCEPT ![c] =
                [@ EXCEPT !.br = IF buffered THEN @ ELSE 0,
                          !.task = "none",
                          !.taskBr = 0,
                          !.err = rtConns[c].res,
                          !.pc = IF rtConns[c].res = "ok" THEN "handler"
                                 ELSE "exit"]]
    /\ UNCHANGED outsideOldRead

\* Request.ReadTimeout's select, case <-req.timeoutTimer.C, and serveConn
\* after it: ErrReadTimeout, ctx = makeCtxShadow(ctx), break.
OldSelectTimer(c) ==
    /\ rtConns[c].pc = "select"
    /\ rtConns' = [rtConns EXCEPT ![c] =
                      [@ EXCEPT !.err = "ErrReadTimeout", !.pc = "exit"]]
    /\ UNCHANGED <<outsideOldRead, readersPool>>

\* serveConn from the handler call to the end of the loop body: the
\* response is written; with Connection: close the loop is left.
OldHandle(c) ==
    /\ rtConns[c].pc = "handler"
    /\ \E connectionClose \in BOOLEAN :
          rtConns' = [rtConns EXCEPT ![c].pc = IF connectionClose
                                               THEN "exit" ELSE "read"]
    /\ UNCHANGED <<outsideOldRead, readersPool>>

\* serveConn after the loop: if br != nil { releaseReader(ctx, br) }, the
\* ctx is released and c closed.
OldExit(c) ==
    /\ rtConns[c].pc = "exit"
    /\ readersPool' = IF rtConns[c].br # 0
                      THEN readersPool \cup {rtConns[c].br}
                      ELSE readersPool
    /\ rtConns' = [rtConns EXCEPT ![c] = [@ EXCEPT !.br = 0, !.pc = "done"]]
    /\ UNCHANGED outsideOldRead

NextOldRead ==
    \/ \E c \in Conns : OldReadSync(c)
    \/ \E c \in Conns : OldReadTimeoutStart(c)
    \/ \E c \in Conns : OldReadTaskDone(c)
    \/ \E c \in Conns : OldSelectRead(c)
    \/ \E c \in Conns : OldSelectTimer(c)
    \/ \E c \in Conns : OldHandle(c)
    \/ \E c \in Conns : OldExit(c)

SpecOldRead == InitOldRead /\ [][NextOldRead]_vars

\* C38: no reader in the reader pool is being read from by a task.
C38_PooledReaderHasNoReadInFlight ==
    \A r \in readersPool :
       \A c \in Conns : ~(rtConns[c].task = "reading" /\ rtConns[c].taskBr = r)

\* ------------------------------------------------------------------------
\* SpecNewDial: calls of the function tcpDialer.NewDial returns, for one
\* host: getTCPAddr with resolveTCPAddrs, then net.DialTCP in a goroutine
\* raced against the dial timer.
\* ------------------------------------------------------------------------
\* What net.LookupIP can return for the host: at least one IP address,
\* each IPv4 or IPv6.
LookupResults ==
    UNION {[1..n -> {"v4", "v6"}] : n \in 1..MaxAddrs}

InitNewDial ==
    /\ cfg \in [DualStack : BOOLEAN, ips : LookupResults]
    /\ NoLoop
    /\ NoAdmission
    /\ NoPool
    /\ NoClock
    /\ NoClient
    /\ NoHelper
    /\ NoDial
    /\ NoMaps
    /\ NoHeaders
    /\ NoRead
    /\ NoMessages
    /\ wr = NoWrite
    /\ args = NoArgs
    /\ copy = NoCopy
    /\ NoStatus
    /\ NoOldRead
    /\ NoNewDial

\* resolveTCPAddrs after a successful lookup: without dualStack the
\* addresses that are not IPv4 are skipped.
RECURSIVE resolveTCPAddrs(_, _)
resolveTCPAddrs(ips, dualStack) ==
    IF ips = <<>> THEN <<>>
    ELSE (IF ~dualStack /\ Head(ips) # "v4" THEN <<>> ELSE <<Head(ips)>>)
         \o resolveTCPAddrs(Tail(ips), dualStack)

\* The dial function up to its select: getTCPAddr resolves the host when
\* the map has no entry for it (the lookup may fail: the error is
\* returned), stores the entry, and takes e.addrs[0], or, of several
\* addresses, the one at AddrIndex; indexing an empty list panics.  Then
\* the goroutine calling net.DialTCP is started.
NewDialStart(d) ==
    /\ dialCalls[d].pc = "idle"
    /\ \E ok \in BOOLEAN :
          LET resolve == dialEntry.e = "nil"
              e == IF resolve
                   THEN [e |-> "entry",
                         addrs |-> resolveTCPAddrs(cfg.ips, cfg.DualStack),
                         addrsIdx |-> 0]
                   ELSE dialEntry
              n == Len(e.addrs)
          IN  IF resolve /\ ~ok
              THEN /\ dialCalls' = [dialCalls EXCEPT ![d] =
                          [@ EXCEPT !.pc = "returned", !.ret = "err"]]
                   /\ UNCHANGED dialEntry
              ELSE IF n = 0
              THEN /\ dialEntry' = e
                   /\ dialCalls' = [dialCalls EXCEPT ![d].pc = "panicked"]
              ELSE /\ dialEntry' = IF n > 1
                                   THEN [e EXCEPT !.addrsIdx = @ + 1]
                                   ELSE e
                   /\ dialCalls' = [dialCalls EXCEPT ![d] =
                          [@ EXCEPT !.pc = "select", !.task = "dialing",
                                    !.addr = IF n > 1
                                             THEN AddrIndex(e.addrsIdx + 1,
                                                            n)
                                             ELSE 0]]
    /\ UNCHANGED outsideNewDial

\* The dial goroutine: net.DialTCP returns a connection or an error, and
\* the result is sent on ch, which has room for one value.
NewDialTaskDone(d) ==
    /\ dialCalls[d].task = "dialing"
    /\ \E made \in {"open", "failed"} :
          dialCalls' = [dialCalls EXCEPT ![d] =
                           [@ EXCEPT !.task = "done", !.conn = made]]
    /\ UNCHANGED <<outsideNewDial, dialEntry>>

\* The select, case dr := <-ch: the goroutine's result is returned.
NewDialSelectResult(d) ==
    /\ dialCalls[d].pc = "select"
    /\ dialCalls[d].task = "done"
    /\ dialCalls' = [dialCalls EXCEPT ![d] =
          [@ EXCEPT !.pc = "returned",
                    !.ret = IF dialCalls[d].conn = "open" THEN "conn"
                            ELSE "err"]]
    /\ UNCHANGED <<outsideNewDial, dialEntry>>

\* The select, case <-time.After(DefaultDialTimeout): ErrDialTimeout is
\* returned.
NewDialSelectTimer(d) ==
    /\ dialCalls[d].pc = "select"
    /\ dialCalls' = [dialCalls EXCEPT ![d] =
          [@ EXCEPT !.pc = "returned", !.ret = "ErrDialTimeout"]]
    /\ UNCHANGED <<outsideNewDial, dialEntry>>

NextNewDial ==
    \/ \E d \in Calls : NewDialStart(d)
    \/ \E d \in Calls : NewDialTaskDone(d)
    \/ \E d \in Calls : NewDialSelectResult(d)
    \/ \E d \in Calls : NewDialSelectTimer(d)

SpecNewDial == InitNewDial /\ [][NextNewDial]_vars

\* C39: when a call has returned and its dial goroutine has established a
\* connection, the connection was returned to the caller (nothing in the
\* dialer closes a connection, so no other end is open to it).
C39_DialedConnReturnedOrClosed ==
    \A d \in Calls :
       dialCalls[d].pc = "returned" /\ dialCalls[d].conn = "open" =>
          dialCalls[d].ret = "conn"

\* C40: once the host has resolved to no usable address, no call indexes
\* the empty list, and every call that has got past getTCPAddr's
\* resolution returns an error to its caller.
C40_NoAddressIsAnError ==
    \A d \in Calls :
       /\ dialCalls[d].pc # "panicked"
       /\ (dialEntry.e = "entry" /\ dialEntry.addrs = <<>>) =>
             (/\ dialCalls[d].pc \in {"idle", "returned"}
              /\ dialCalls[d].ret \in {"none", "err"})

====
